---- MODULE Spec2Model ----
(***************************************************************************)
(* Model of the G-code pipeline of gcode_processor_gui.py:                 *)
(*   ProcessWorker.run_bending            (BendTransformer)                *)
(*   ProcessWorker.run_ik_translation     (KinematicsTransformer)          *)
(*   ProcessWorker.run_klipper_conversion (AxisCommandCompiler)            *)
(*                                                                         *)
(* A line of text is a sequence of one-character strings, its terminator   *)
(* "\n" included, and a file is a sequence of lines.  Numbers are          *)
(* fixed-point: the integer n stands for n / Scale.  Intermediate values   *)
(* are bound as parameters of local operators, in the order in which the   *)
(* code computes them.                                                     *)
(***************************************************************************)
EXTENDS Integers, Sequences, FiniteSets, TLC

\* Longest input file, in lines.
MaxLines == 3

\* One decimal digit of resolution: the integer n stands for n / 10.
Scale == 2 * 5

(***************************************************************************)
(* Characters and Python's string methods                                  *)
(***************************************************************************)
WS == {" ", "\t", "\n", "\r"}

Digits == {"0", "1", "2", "3", "4", "5", "6", "7", "8", "9"}

Letters ==
    {"A", "B", "C", "D", "E", "F", "G", "H", "I", "J", "K", "L", "M",
     "N", "O", "P", "Q", "R", "S", "T", "U", "V", "W", "X", "Y", "Z",
     "a", "b", "c", "d", "e", "f", "g", "h", "i", "j", "k", "l", "m",
     "n", "o", "p", "q", "r", "s", "t", "u", "v", "w", "x", "y", "z"}

\* The characters of the regular-expression class \w.
WordChars == Letters \cup Digits \cup {"_"}

DigitVal(c) ==
    CASE c = "0" -> 0 [] c = "1" -> 1 [] c = "2" -> 2 [] c = "3" -> 3
      [] c = "4" -> 4 [] c = "5" -> 5 [] c = "6" -> 6 [] c = "7" -> 7
      [] c = "8" -> 8 [] c = "9" -> 9

DigitChar(d) ==
    CASE d = 0 -> "0" [] d = 1 -> "1" [] d = 2 -> "2" [] d = 3 -> "3"
      [] d = 4 -> "4" [] d = 5 -> "5" [] d = 6 -> "6" [] d = 7 -> "7"
      [] d = 8 -> "8" [] d = 9 -> "9"

Min(S) == CHOOSE i \in S : \A j \in S : i <= j

Max(S) == CHOOSE i \in S : \A j \in S : j <= i

Abs(v) == IF v < 0 THEN 0 - v ELSE v

Sgn(v) == IF v < 0 THEN -1 ELSE IF v > 0 THEN 1 ELSE 0

\* a / b rounded to the nearest integer, b > 0.
RoundDiv(a, b) == (2 * a + b) \div (2 * b)

\* The first index >= p of s whose character is not in C (past the end of s
\* when there is none).
RunEnd(s, p, C) ==
    IF p > Len(s) THEN p
    ELSE Min({i \in p..(Len(s) + 1) :
                 /\ i = Len(s) + 1 \/ s[i] \notin C
                 /\ \A j \in p..(i - 1) : s[j] \in C})

\* The first index >= p of s whose character is in C (past the end of s when
\* there is none).
RunEndNot(s, p, C) ==
    IF p > Len(s) THEN p
    ELSE Min({i \in p..(Len(s) + 1) :
                 /\ i = Len(s) + 1 \/ s[i] \in C
                 /\ \A j \in p..(i - 1) : s[j] \notin C})

\* A strip() that removes nothing.
StripNothing(s) == s

\* str.strip(): s without its leading and trailing whitespace.
Strip(s) ==
    LET from(a) ==
            IF a > Len(s) THEN <<>>
            ELSE SubSeq(s, a, Max({i \in a..Len(s) : s[i] \notin WS}))
    IN  from(RunEnd(s, 1, WS))

\* str.startswith(p)
StartsWith(s, p) == Len(s) >= Len(p) /\ SubSeq(s, 1, Len(p)) = p

\* str.find(p): the 0-based index of the first occurrence of p in s, or -1.
Find(s, p) ==
    LET first(hits) == IF hits = {} THEN -1 ELSE Min(hits) - 1
    IN  first({i \in 1..(Len(s) - Len(p) + 1) : SubSeq(s, i, i + Len(p) - 1) = p})

\* str.split(): the maximal runs of non-whitespace characters of s, in order.
RECURSIVE SplitFrom(_, _)
SplitFrom(s, p) ==
    LET token(a, b) == <<SubSeq(s, a, b - 1)>> \o SplitFrom(s, b)
        from(a) == IF a > Len(s) THEN <<>> ELSE token(a, RunEndNot(s, a, WS))
    IN  from(RunEnd(s, p, WS))

Split(s) == SplitFrom(s, 1)

\* " ".join(parts)
RECURSIVE Join(_)
Join(parts) ==
    IF parts = <<>> THEN <<>>
    ELSE IF Len(parts) = 1 THEN parts[1]
    ELSE parts[1] \o <<" ">> \o Join(Tail(parts))

(***************************************************************************)
(* float(text) and str(float)                                              *)
(***************************************************************************)
RECURSIVE IntOf(_)
IntOf(ds) ==
    IF ds = <<>> THEN 0
    ELSE 10 * IntOf(SubSeq(ds, 1, Len(ds) - 1)) + DigitVal(ds[Len(ds)])

RECURSIVE IntChars(_)
IntChars(n) ==
    IF n < 10 THEN <<DigitChar(n)>>
    ELSE IntChars(n \div 10) \o <<DigitChar(n % 10)>>

\* float(s): [ok |-> FALSE] stands for ValueError.  The decimal forms
\* [+-]digits[.[digits]] and [+-].digits are read; the value keeps the first
\* fractional digit.
ParseFloat(s) ==
    LET value(ip, fp, neg) ==
            [ok  |-> TRUE,
             val |-> (IF neg THEN -1 ELSE 1)
                         * (IntOf(ip) * Scale + (IF fp = <<>> THEN 0 ELSE DigitVal(fp[1])))]
        split(u, neg, d) ==
            value(SubSeq(u, 1, d - 1), SubSeq(u, d + 1, Len(u)), neg)
        digits(u, neg, dots) ==
            IF /\ Cardinality(dots) <= 1
               /\ \A i \in 1..Len(u) : u[i] \in Digits \cup {"."}
               /\ Len(u) > Cardinality(dots)
            THEN split(u, neg, IF dots = {} THEN Len(u) + 1 ELSE Min(dots))
            ELSE [ok |-> FALSE, val |-> 0]
        unsigned(u, neg) == digits(u, neg, {i \in 1..Len(u) : u[i] = "."})
        signed(t) ==
            IF Len(t) > 0 /\ t[1] \in {"-", "+"}
            THEN unsigned(Tail(t), t[1] = "-")
            ELSE unsigned(t, FALSE)
    IN  signed(Strip(s))

\* str(x) of a float x: sign, integer part, ".", fractional digit ("5.0", "-0.5").
FormatFloat(n) ==
    (IF n < 0 THEN <<"-">> ELSE <<>>)
        \o IntChars(Abs(n) \div Scale) \o <<".", DigitChar(Abs(n) % Scale)>>

(***************************************************************************)
(* State                                                                   *)
(***************************************************************************)
VARIABLES
    params,     \* ProcessWorker.params of the bending worker
    fs,         \* the files: name -> [exists, lines]
    bend,       \* the bending worker: its position and run_bending's locals
    ik,         \* the IK worker: its position and run_ik_translation's locals
    klip,       \* the Klipper worker: its position and run_klipper_conversion's locals
    log,        \* the messages emitted on log_signal, in order
    signals,    \* the finished_signal / error_signal emissions, in order
    gui         \* the window's printer side: its controller, the handler in progress, the requests sent

vars == <<params, fs, bend, ik, klip, log, signals, gui>>

\* Python's None, and a present value v, as sequences of length 0 and 1.
None == <<>>

Some(v) == <<v>>

NoFile == [exists |-> FALSE, lines |-> <<>>]

File(ls) == [exists |-> TRUE, lines |-> ls]

\* The window after init_ui: no controller held, no printer handler running.
GUIIdle ==
    [printer_controller |-> FALSE, pc |-> "idle", dialog |-> None, requests |-> <<>>,
     upload_result |-> None, result |-> None, commands |-> <<>>, i |-> 0,
     success_count |-> 0]

\* The text written by f.write("\n".join(ls)), as the lines a later readlines() sees.
JoinLines(ls) ==
    [i \in 1..(IF ls # <<>> /\ ls[Len(ls)] = <<>> THEN Len(ls) - 1 ELSE Len(ls)) |->
        IF i < Len(ls) THEN ls[i] \o <<"\n">> ELSE ls[i]]

(***************************************************************************)
(* AxisCommandCompiler: ProcessWorker.run_klipper_conversion               *)
(***************************************************************************)
\* The end (exclusive) of the match of -?\d+\.?\d* at index p of s, or 0 without a match.
NumEnd(s, p) ==
    LET frac(q, d1) ==
            IF d1 = q THEN 0
            ELSE RunEnd(s, IF d1 <= Len(s) /\ s[d1] = "." THEN d1 + 1 ELSE d1, Digits)
        int(q) == frac(q, RunEnd(s, q, Digits))
    IN  int(IF p <= Len(s) /\ s[p] = "-" THEN p + 1 ELSE p)

\* re.search(r"\bB(-?\d+\.?\d*)", s): the text of group 1 of the leftmost
\* match, None without a match.
SearchB(s) ==
    LET group(p0) == Some(SubSeq(s, p0 + 1, NumEnd(s, p0 + 1) - 1))
        first(hits) == IF hits = {} THEN None ELSE group(Min(hits))
    IN  first({p \in 1..Len(s) :
                  /\ s[p] = "B"
                  /\ p = 1 \/ s[p - 1] \notin WordChars
                  /\ NumEnd(s, p + 1) # 0})

\* re.sub(r"\s*L-?\d+\.?\d*", "", s) from index p on, for the letter L.
RECURSIVE ReSubFrom(_, _, _)
ReSubFrom(s, L, p) ==
    LET cut(e) == IF e # 0 THEN ReSubFrom(s, L, e)
                  ELSE <<s[p]>> \o ReSubFrom(s, L, p + 1)
        at(q) == cut(IF q <= Len(s) /\ s[q] = L THEN NumEnd(s, q + 1) ELSE 0)
    IN  IF p > Len(s) THEN <<>> ELSE at(RunEnd(s, p, WS))

ReSub(s, L) == ReSubFrom(s, L, 1)

\* f"MANUAL_STEPPER STEPPER=b_stepper MOVE={current_b}"
StepperCommand(current_b) ==
    <<"M", "A", "N", "U", "A", "L", "_", "S", "T", "E", "P", "P", "E",
      "R", " ", "S", "T", "E", "P", "P", "E", "R", "=", "b", "_", "s",
      "t", "e", "p", "p", "e", "r", " ", "M", "O", "V", "E", "=">>
        \o FormatFloat(current_b)

\* The test of line 367 without the comparison: every B value counts as changed.
BChangedAlways(last_b_value, current_b) == TRUE

\* The test of line 367: the first B value, or one that differs from the last emitted.
BChanged(last_b_value, current_b) ==
    last_b_value = None \/ current_b # last_b_value[1]

\* Lines 370-371 alone: the B fields are removed, the A fields are kept.
CleanLineKeepA(original_line, b_match) ==
    IF b_match # None THEN ReSub(original_line, "B") ELSE original_line

\* Lines 370-374: the G1 line without its B fields (when one was found) and its A fields.
CleanLine(original_line, b_match) ==
    ReSub(IF b_match # None THEN ReSub(original_line, "B") ELSE original_line, "A")

\* The appends of lines 368 and 376 in the opposite order: the stepper
\* command after the line.
EmittedAfter(cmd, cleaned) ==
    <<[kind |-> "line", text |-> cleaned]>>
        \o (IF cmd # None THEN <<[kind |-> "cmd", text |-> cmd[1]]>> ELSE <<>>)

\* The append of line 376 done twice.
EmittedTwice(cmd, cleaned) ==
    (IF cmd # None THEN <<[kind |-> "cmd", text |-> cmd[1]]>> ELSE <<>>)
        \o <<[kind |-> "line", text |-> cleaned], [kind |-> "line", text |-> cleaned]>>

\* What one iteration appends to converted_lines, in order, each with its kind.
Emitted(cmd, cleaned) ==
    (IF cmd # None THEN <<[kind |-> "cmd", text |-> cmd[1]]>> ELSE <<>>)
        \o <<[kind |-> "line", text |-> cleaned]>>

\* One iteration of the loop of lines 359-376 on `line`: the lines appended to
\* converted_lines and last_b_value afterwards.
ConvertLine(line, last_b_value) ==
    LET result(original_line, b_match, emit) ==
            [out  |-> Emitted(IF emit # None THEN Some(StepperCommand(emit[1])) ELSE None,
                              CleanLine(original_line, b_match)),
             last |-> IF emit # None THEN emit ELSE last_b_value]
        value(current_b) ==
            IF BChanged(last_b_value, current_b) THEN Some(current_b) ELSE None
        g1(original_line, b_match) ==
            result(original_line, b_match,
                   IF b_match # None THEN value(ParseFloat(b_match[1]).val) ELSE None)
        stripped(original_line) ==
            IF StartsWith(original_line, <<"G", "1">>)
            THEN g1(original_line, SearchB(original_line))
            ELSE [out |-> Emitted(None, original_line), last |-> last_b_value]
    IN  stripped(Strip(line))

KlipperIdle ==
    [pc |-> "idle", lines |-> <<>>, i |-> 0, converted_lines |-> <<>>,
     last_b_value |-> None, origin |-> <<>>]

\* Lines 351-357: the whole input is read before the loop starts.  The GUI
\* starts the conversion when the IK file exists (lines 712-715); the stages
\* are run one at a time, so no IK pass is writing that file.
KlipperRead ==
    /\ klip.pc = "idle"
    /\ fs["IK"].exists
    /\ ik.pc \in {"idle", "done", "error"}
    /\ klip' = [klip EXCEPT !.pc = "loop", !.lines = fs["IK"].lines]
    /\ log' = Append(log, "Starting Klipper conversion process...")
    /\ UNCHANGED <<gui, params, fs, bend, ik, signals>>

\* Lines 359-376: one line of the input.  origin records, for each converted
\* line, the input line it comes from and whether it is a stepper command.
KlipperLine ==
    LET step(r) ==
            klip' = [klip EXCEPT
                       !.i = @ + 1,
                       !.converted_lines = @ \o [j \in 1..Len(r.out) |-> r.out[j].text],
                       !.last_b_value = r.last,
                       !.origin = @ \o [j \in 1..Len(r.out) |->
                                           [src |-> klip.i + 1, kind |-> r.out[j].kind]]]
    IN  /\ klip.pc = "loop"
        /\ klip.i < Len(klip.lines)
        /\ step(ConvertLine(klip.lines[klip.i + 1], klip.last_b_value))
        /\ UNCHANGED <<gui, params, fs, bend, ik, log, signals>>

\* Lines 378-382: the output file is written in one piece after the loop.
KlipperWrite ==
    /\ klip.pc = "loop"
    /\ klip.i = Len(klip.lines)
    /\ fs' = [fs EXCEPT !["KLIPPER"] = File(JoinLines(klip.converted_lines))]
    /\ klip' = [klip EXCEPT !.pc = "done"]
    /\ log' = Append(log, "Klipper conversion finished!")
    /\ signals' = Append(signals, <<"finished", "klipper">>)
    /\ UNCHANGED <<gui, params, bend, ik>>

NextKlipper == KlipperRead \/ KlipperLine \/ KlipperWrite

(***************************************************************************)
(* KinematicsTransformer: ProcessWorker.run_ik_translation                 *)
(***************************************************************************)
\* Link lengths, in units of 1 / Scale.
La == 284

Lb == 477

\* Sines and cosines are held in hundredths.
TrigScale == 10 * 10

\* math.sin(math.radians(d / Scale)) in units of 1 / TrigScale, by Bhaskara's
\* rational approximation 4x(180-x) / (40500 - x(180-x)) on 0..180 degrees,
\* which is exact at 0, 30, 90, 150 and 180 degrees; sin(x + 180) = -sin(x).
SinDeg(d) ==
    LET half == 180 * Scale
        arch(x) == RoundDiv(4 * x * (half - x) * TrigScale,
                            40500 * Scale * Scale - x * (half - x))
        turn(m) == IF m >= half THEN 0 - arch(m - half) ELSE arch(m)
    IN  turn(d % (2 * half))

\* math.cos(math.radians(d / Scale)) in units of 1 / TrigScale.
CosDeg(d) == SinDeg(d + 90 * Scale)

\* max(v, 0) left out: the value as computed.
Max0Unclamped(v) == [val |-> v, isint |-> FALSE]

\* Python's max(v, 0): the float v itself, or the int 0 when v is negative.
Max0(v) == IF v < 0 THEN [val |-> 0, isint |-> TRUE] ELSE [val |-> v, isint |-> FALSE]

\* str() of the result of max(v, 0): "0" for the int, "0.0" for the float.
StrNum(r) == IF r.isint THEN IntChars(r.val) ELSE FormatFloat(r.val)

func_x(x_val, y_val, z_val, a_val, b_val) ==
    Max0(x_val + RoundDiv(SinDeg(a_val) * La, TrigScale)
               + RoundDiv(CosDeg(a_val) * SinDeg(b_val) * Lb, TrigScale * TrigScale))

func_y(x_val, y_val, z_val, a_val, b_val) ==
    Max0(y_val - La + RoundDiv(CosDeg(a_val) * La, TrigScale)
               - RoundDiv(SinDeg(a_val) * SinDeg(b_val) * Lb, TrigScale * TrigScale))

func_z(x_val, y_val, z_val, a_val, b_val) ==
    Max0(z_val + RoundDiv(CosDeg(b_val) * Lb, TrigScale) - Lb)

\* The letters whose fields recalculate reads with float().
IKLetters == {"X", "Y", "Z", "A", "B"}

\* recalculate with the rotation fields written back as the floats read from
\* them (lines 321-324 keeping their indices as lines 312-320 do).
recalculateRotation(line) ==
    LET rewrite(parts, x_val, y_val, z_val, a_val, b_val) ==
            Join([i \in 1..Len(parts) |->
                    IF i >= 2 /\ parts[i][1] = "X"
                    THEN <<"X">> \o StrNum(func_x(x_val, y_val, z_val, a_val, b_val))
                    ELSE IF i >= 2 /\ parts[i][1] = "Y"
                    THEN <<"Y">> \o StrNum(func_y(x_val, y_val, z_val, a_val, b_val))
                    ELSE IF i >= 2 /\ parts[i][1] = "Z"
                    THEN <<"Z">> \o StrNum(func_z(x_val, y_val, z_val, a_val, b_val))
                    ELSE IF i >= 2 /\ parts[i][1] = "A"
                    THEN <<"A">> \o FormatFloat(a_val)
                    ELSE IF i >= 2 /\ parts[i][1] = "B"
                    THEN <<"B">> \o FormatFloat(b_val)
                    ELSE parts[i]])
        last(parts, at) ==
            IF at = {} THEN 0 ELSE ParseFloat(Tail(parts[Max(at)])).val
        val(parts, L) == last(parts, {i \in 2..Len(parts) : parts[i][1] = L})
        fields(parts) ==
            IF \A i \in 2..Len(parts) :
                   parts[i][1] \in IKLetters => ParseFloat(Tail(parts[i])).ok
            THEN [ok   |-> TRUE,
                  line |-> rewrite(parts, val(parts, "X"), val(parts, "Y"),
                                   val(parts, "Z"), val(parts, "A"), val(parts, "B"))]
            ELSE [ok |-> FALSE, line |-> line]
    IN  IF ~StartsWith(line, <<"G">>) /\ ~StartsWith(line, <<"M">>)
        THEN [ok |-> TRUE, line |-> line]
        ELSE fields(Split(line))

\* recalculate(line), lines 302-337: [ok |-> FALSE] when a float() raises ValueError.
recalculate(line) ==
    LET rewrite(parts, x_val, y_val, z_val, a_val, b_val) ==
            Join([i \in 1..Len(parts) |->
                    IF i >= 2 /\ parts[i][1] = "X"
                    THEN <<"X">> \o StrNum(func_x(x_val, y_val, z_val, a_val, b_val))
                    ELSE IF i >= 2 /\ parts[i][1] = "Y"
                    THEN <<"Y">> \o StrNum(func_y(x_val, y_val, z_val, a_val, b_val))
                    ELSE IF i >= 2 /\ parts[i][1] = "Z"
                    THEN <<"Z">> \o StrNum(func_z(x_val, y_val, z_val, a_val, b_val))
                    ELSE parts[i]])
        last(parts, at) ==
            IF at = {} THEN 0 ELSE ParseFloat(Tail(parts[Max(at)])).val
        val(parts, L) == last(parts, {i \in 2..Len(parts) : parts[i][1] = L})
        fields(parts) ==
            IF \A i \in 2..Len(parts) :
                   parts[i][1] \in IKLetters => ParseFloat(Tail(parts[i])).ok
            THEN [ok   |-> TRUE,
                  line |-> rewrite(parts, val(parts, "X"), val(parts, "Y"),
                                   val(parts, "Z"), val(parts, "A"), val(parts, "B"))]
            ELSE [ok |-> FALSE, line |-> line]
    IN  IF ~StartsWith(line, <<"G">>) /\ ~StartsWith(line, <<"M">>)
        THEN [ok |-> TRUE, line |-> line]
        ELSE fields(Split(line))

IKIdle == [pc |-> "idle", lines |-> <<>>, i |-> 0, origin |-> <<>>]

\* Lines 286-342: the input is read whole, then the output file is created
\* empty.  The GUI enables the IK button when the bending has finished
\* (line 735) and starts the pass when the bent file exists (lines 695-698).
IKRead ==
    /\ ik.pc = "idle"
    /\ bend.pc = "done"
    /\ fs["BENT"].exists
    /\ ik' = [ik EXCEPT !.pc = "loop", !.lines = fs["BENT"].lines]
    /\ fs' = [fs EXCEPT !["IK"] = File(<<>>)]
    /\ log' = Append(log, "Starting IK translation process...")
    /\ UNCHANGED <<gui, params, bend, klip, signals>>

\* Lines 343-345: one line is recalculated and written.  origin records the
\* input line each output line comes from.
IKLine ==
    LET step(r) ==
            /\ r.ok
            /\ fs' = [fs EXCEPT !["IK"].lines = Append(@, r.line \o <<"\n">>)]
            /\ ik' = [ik EXCEPT !.i = @ + 1, !.origin = Append(@, ik.i + 1)]
    IN  /\ ik.pc = "loop"
        /\ ik.i < Len(ik.lines)
        /\ step(recalculate(Strip(ik.lines[ik.i + 1])))
        /\ UNCHANGED <<gui, params, bend, klip, log, signals>>

\* The failure of a float() in recalculate with finished_signal emitted all
\* the same, as an emit placed after the try of ProcessWorker.run would.
IKRaiseThenFinished ==
    /\ ik.pc = "loop"
    /\ ik.i < Len(ik.lines)
    /\ ~recalculate(Strip(ik.lines[ik.i + 1])).ok
    /\ ik' = [ik EXCEPT !.pc = "error"]
    /\ signals' = signals \o << <<"error", "ik">>, <<"finished", "ik">> >>
    /\ UNCHANGED <<gui, params, fs, bend, klip, log>>

\* A float() in recalculate raises: ProcessWorker.run (lines 142-143) emits
\* error_signal and the pass ends with the output file as written so far.
IKRaise ==
    /\ ik.pc = "loop"
    /\ ik.i < Len(ik.lines)
    /\ ~recalculate(Strip(ik.lines[ik.i + 1])).ok
    /\ ik' = [ik EXCEPT !.pc = "error"]
    /\ signals' = Append(signals, <<"error", "ik">>)
    /\ UNCHANGED <<gui, params, fs, bend, klip, log>>

\* Lines 347-348.
IKFinish ==
    /\ ik.pc = "loop"
    /\ ik.i = Len(ik.lines)
    /\ ik' = [ik EXCEPT !.pc = "done"]
    /\ log' = Append(log, "IK translation finished!")
    /\ signals' = Append(signals, <<"finished", "ik">>)
    /\ UNCHANGED <<gui, params, fs, bend, klip>>

NextIK == IKRead \/ IKLine \/ IKRaise \/ IKFinish

(***************************************************************************)
(* SplineModel and ArcLengthIndex: ProcessWorker.run_bending, lines 149-177 *)
(***************************************************************************)
\* Slopes are held in hundredths, angles in units of 1 / Scale degrees.
SlopeScale == 10 * 10

\* CubicSpline(spline_z, spline_x, ...) raises ValueError unless there are at
\* least two points, as many offsets as heights, and the heights strictly increase.
ValidControlPoints(spline_x, spline_z) ==
    /\ Len(spline_z) >= 2
    /\ Len(spline_x) = Len(spline_z)
    /\ \A i \in 1..(Len(spline_z) - 1) : spline_z[i] < spline_z[i + 1]

\* spline(h) for the two control points the GUI passes: the cubic through
\* (z0, x0) and (z1, x1) with first derivative 0 at z0 and 2.5 at z1 (bc_type),
\* which CubicSpline also uses outside [z0, z1] (it extrapolates).
\*   s(h) = x0 + t^2 (6D - 5H) / (2 H^2) + t^3 (5H - 4D) / (2 H^3),
\*   t = h - z0, H = z1 - z0, D = x1 - x0.
spline(p, h) ==
    LET cubic(H, D, t) ==
            RoundDiv(t * t * (6 * D - 5 * H) * H + t * t * t * (5 * H - 4 * D),
                     2 * H * H * H)
    IN  p.spline_x[1]
            + cubic(p.spline_z[2] - p.spline_z[1], p.spline_x[2] - p.spline_x[1],
                    h - p.spline_z[1])

\* spline(h, 1) as a spline that does not extrapolate would give it inside
\* its range, with the slope of the nearest end for a height outside.
spline1Inside(p, h) ==
    LET slope(H, D, t) ==
            RoundDiv(SlopeScale * (2 * t * (6 * D - 5 * H) * H
                                       + 3 * t * t * (5 * H - 4 * D)),
                     2 * H * H * H)
    IN  slope(p.spline_z[2] - p.spline_z[1], p.spline_x[2] - p.spline_x[1],
              Max({0, Min({h, p.spline_z[2]}) - p.spline_z[1]}))

\* spline(h, 1), the first derivative, in units of 1 / SlopeScale.
spline1(p, h) ==
    LET slope(H, D, t) ==
            RoundDiv(SlopeScale * (2 * t * (6 * D - 5 * H) * H
                                       + 3 * t * t * (5 * H - 4 * D)),
                     2 * H * H * H)
    IN  slope(p.spline_z[2] - p.spline_z[1], p.spline_x[2] - p.spline_x[1],
              h - p.spline_z[1])

\* The integer part of the square root of n >= 0.
RECURSIVE SqrtBetween(_, _, _)
SqrtBetween(n, lo, hi) ==
    LET half(mid) == IF mid * mid <= n THEN SqrtBetween(n, mid, hi)
                     ELSE SqrtBetween(n, lo, mid - 1)
    IN  IF lo >= hi THEN lo ELSE half((lo + hi + 1) \div 2)

\* np.sqrt(n), rounded down.
Sqrt(n) == SqrtBetween(n, 0, IF n < 40000 THEN n ELSE 40000)

\* Line 164 without the discretization_length^2 term: the step in offset alone.
ArcStepChord(p, height) ==
    Abs(spline(p, height) - spline(p, height - p.discretization_length))

\* One step of the arc length, line 164: sqrt((spline(h) - spline(h - dl))^2 + dl^2).
ArcStep(p, height) ==
    LET length(ds, dl) == Sqrt(ds * ds + dl * dl)
    IN  length(spline(p, height) - spline(p, height - p.discretization_length),
               p.discretization_length)

\* Lines 159-164: the table starts at [0.0] and gets one sample for each height
\* of np.arange(dl, spline_z[-1], dl), that is k * dl < spline_z[-1], k = 1, 2, ...
RECURSIVE BuildTable(_, _)
BuildTable(p, table) ==
    LET sample(height) ==
            IF height >= p.spline_z[Len(p.spline_z)] THEN table
            ELSE BuildTable(p, Append(table, table[Len(table)] + ArcStep(p, height)))
    IN  sample(Len(table) * p.discretization_length)

\* Line 170 with the index counted from 1: the height of the sample after the
\* first one that reaches z_height.
on_spline_lengthFromOne(p, table, z_height) ==
    LET first(hits) ==
            IF hits = {} THEN [val |-> z_height, warn |-> TRUE]
            ELSE [val |-> Min(hits) * p.discretization_length, warn |-> FALSE]
    IN  first({i \in 1..Len(table) : table[i] >= z_height})

\* Line 172 returning 0.0 for a height no sample reaches.
on_spline_lengthNoFallback(p, table, z_height) ==
    LET first(hits) ==
            IF hits = {} THEN [val |-> 0, warn |-> TRUE]
            ELSE [val |-> (Min(hits) - 1) * p.discretization_length, warn |-> FALSE]
    IN  first({i \in 1..Len(table) : table[i] >= z_height})

\* Line 169 with > for >=: a sample equal to z_height is passed over.
on_spline_lengthStrict(p, table, z_height) ==
    LET first(hits) ==
            IF hits = {} THEN [val |-> z_height, warn |-> TRUE]
            ELSE [val |-> (Min(hits) - 1) * p.discretization_length, warn |-> FALSE]
    IN  first({i \in 1..Len(table) : table[i] > z_height})

\* on_spline_length(z_height), lines 166-172: the height of the first sample
\* that reaches z_height; without one, a Warning and z_height itself.
on_spline_length(p, table, z_height) ==
    LET first(hits) ==
            IF hits = {} THEN [val |-> z_height, warn |-> TRUE]
            ELSE [val |-> (Min(hits) - 1) * p.discretization_length, warn |-> FALSE]
    IN  first({i \in 1..Len(table) : table[i] >= z_height})

\* np.arctan(d) for a slope d in units of 1 / SlopeScale, in units of 1 / Scale
\* degrees, by the rational approximations x / (1 + 0.28 x^2) for |x| <= 1
\* and pi/2 - x / (x^2 + 0.28) beyond.
arctan(d) ==
    LET mag(a) ==
            IF a <= SlopeScale
            THEN RoundDiv(573 * Scale * SlopeScale * a,
                          Scale * (SlopeScale * SlopeScale + RoundDiv(28 * a * a, 100)))
            ELSE 90 * Scale
                   - RoundDiv(573 * Scale * SlopeScale * a,
                              Scale * (a * a + RoundDiv(28 * SlopeScale * SlopeScale, 100)))
    IN  IF d < 0 THEN 0 - mag(0 - d) ELSE mag(d)

\* get_normal_point, lines 174-177: the point at `distance` from current_point
\* along the normal of a curve of slope `derivative`.
\* xsign is the sign of x as the floats give it: np.cos(pi / 2) is 6.1e-17 and
\* not 0, so that on a slope of 0 the point at x = 0 lies on the side of
\* `distance`.
get_normal_point(current_point, derivative, distance) ==
    LET point(angle, exact) ==
            [x |-> current_point.x + RoundDiv(distance * CosDeg(angle), TrigScale),
             y |-> current_point.y + RoundDiv(distance * SinDeg(angle), TrigScale),
             xsign |-> IF exact # 0 THEN Sgn(exact)
                       ELSE IF CosDeg(angle) = 0 THEN Sgn(distance)
                       ELSE 0]
        at(angle) == point(angle, current_point.x * TrigScale + distance * CosDeg(angle))
    IN  at(arctan(derivative) + 90 * Scale)

(***************************************************************************)
(* BendTransformer: ProcessWorker.run_bending, lines 179-283                *)
(***************************************************************************)
NoFields == [x |-> None, y |-> None, z |-> None, e |-> None, f |-> None]

Lower(c) ==
    CASE c = "X" -> "x" [] c = "Y" -> "y" [] c = "Z" -> "z" [] c = "E" -> "e"
      [] c = "F" -> "f" [] OTHER -> c

\* The repeated group of the pattern of line 180 from index p on: whitespace,
\* one of x y z e f in either case, an optional minus sign and 1 to 15
\* characters of [0-9.]; each named group keeps the text of its last match.
RECURSIVE FieldsFrom(_, _, _)
FieldsFrom(s, p, rec) ==
    LET number(q, n1, e) ==
            IF e > n1
            THEN FieldsFrom(s, IF e > n1 + 15 THEN n1 + 15 ELSE e,
                            [rec EXCEPT ![Lower(s[q])] =
                                Some(SubSeq(s, q + 1,
                                            (IF e > n1 + 15 THEN n1 + 15 ELSE e) - 1))])
            ELSE rec
        sign(q, n1) == number(q, n1, RunEnd(s, n1, Digits \cup {"."}))
        letter(q) ==
            IF q > p /\ q <= Len(s) /\ Lower(s[q]) \in {"x", "y", "z", "e", "f"}
            THEN sign(q, IF q + 1 <= Len(s) /\ s[q + 1] = "-" THEN q + 2 ELSE q + 1)
            ELSE rec
    IN  letter(RunEnd(s, p, WS))

\* parse_gcode(current_line), lines 179-185: the GCodeLine of a line that
\* begins with G0..G3 (either case), None for any other line.
parse_gcode(current_line) ==
    IF /\ Len(current_line) >= 2
       /\ current_line[1] \in {"g", "G"}
       /\ current_line[2] \in {"0", "1", "2", "3"}
    THEN Some(FieldsFrom(current_line, 3, NoFields))
    ELSE None

\* write_line with the test of line 189 left out: an absent E is written as 0.
write_lineAlwaysE(x, y, z, a, e) ==
    <<"G", "1", " ", "X">> \o FormatFloat(x) \o <<" ", "Y">> \o FormatFloat(y)
        \o <<" ", "Z">> \o FormatFloat(z) \o <<" ", "A", "0", " ", "B">> \o FormatFloat(a)
        \o <<" ", "E">> \o FormatFloat(IF e # None THEN e[1] ELSE 0)
        \o <<"\n">>

\* The text write_line (lines 187-193) writes; run_bending passes g = 1 and f = None.
write_line(x, y, z, a, e) ==
    <<"G", "1", " ", "X">> \o FormatFloat(x) \o <<" ", "Y">> \o FormatFloat(y)
        \o <<" ", "Z">> \o FormatFloat(z) \o <<" ", "A", "0", " ", "B">> \o FormatFloat(a)
        \o (IF e # None THEN <<" ", "E">> \o FormatFloat(e[1]) ELSE <<>>)
        \o <<"\n">>

\* Lines 228-231 with the test of line 229 never true: the feed rate is dropped.
LayerChangeLinesNoFeed(delta, f) ==
    << <<"G", "9", "1", "\n">>,
       <<"G", "1", " ", "Z">> \o FormatFloat(delta) \o <<"\n">>,
       <<"G", "9", "0", "\n">>,
       <<"M", "8", "3", "\n">> >>

\* The lines written for a layer change, lines 228-231.
LayerChangeLines(delta, f) ==
    << <<"G", "9", "1", "\n">>,
       <<"G", "1", " ", "Z">> \o FormatFloat(delta)
           \o (IF f # None THEN <<" ", "F">> \o f[1] ELSE <<>>) \o <<"\n">>,
       <<"G", "9", "0", "\n">>,
       <<"M", "8", "3", "\n">> >>

\* Line 257 with the test never true.
UnplausibleNever(transformed_gcode, current_z) == FALSE

\* Line 257: the transformed depth is negative or more than 50 away from current_z.
Unplausible(transformed_gcode, current_z) ==
    \/ transformed_gcode.xsign < 0
    \/ Abs(transformed_gcode.x - current_z) > 50 * Scale

\* Line 262 with the test never true.
SelfIntersectionNever(p, height_difference) == FALSE

\* Line 262: the layer would have a negative thickness.
SelfIntersection(p, height_difference) == p.layer_height + height_difference < 0

\* Line 265: the spline is steeper than the warning angle.
AngleWarning(p, angle) == angle > p.warning_angle

\* Line 269 with the factor kept from going below zero.
extrusion_amountClamped(e, p, height_difference) ==
    RoundDiv(e * Max({p.layer_height + height_difference, 0}), p.layer_height)

\* Line 269: the E of the source line scaled by the thickness of the layer.
extrusion_amount(e, p, height_difference) ==
    RoundDiv(e * (p.layer_height + height_difference), p.layer_height)

\* float() of an optional field: of its text when present.
FloatOf(field) == IF field # None THEN ParseFloat(field[1]) ELSE [ok |-> TRUE, val |-> 0]

\* The bend algorithm on an X/Y move, lines 237-278.  `st` holds last_position,
\* current_z, last_z and relative_mode; current_z is already the line's Z.
\* `depth` is transformed_gcode.x where the code computes it, `calc` the
\* values of the locals the move is decided on.
BendMove(current_line, c, st, p, table) ==
    LET raise(logs) ==
            [case |-> "raise", out |-> <<>>, logs |-> logs, st |-> st, depth |-> None,
             calc |-> None]
        write(current_position, transformed_gcode, angle, height_difference, logs, pe,
              calc) ==
            IF c.e # None /\ ~pe.ok THEN raise(logs)
            ELSE [case |-> "move",
                  out  |-> <<write_line(
                               transformed_gcode.y, current_position.y,
                               transformed_gcode.x, angle,
                               IF c.e # None
                               THEN Some(extrusion_amount(pe.val, p, height_difference))
                               ELSE None)>>,
                  logs |-> logs,
                  st   |-> [st EXCEPT !.last_position = current_position,
                                      !.last_z = st.current_z],
                  depth |-> Some(transformed_gcode.x),
                  calc |-> Some(calc)]
        checks(current_position, transformed_gcode, angle, height_difference, logs1,
               calc) ==
            IF Unplausible(transformed_gcode, st.current_z)
            THEN [case |-> "unplausible", out |-> <<current_line>>,
                  logs |-> Append(logs1, "Warning! Possibly unplausible move"),
                  st |-> st, depth |-> Some(transformed_gcode.x),
                  calc |-> Some(calc)]
            ELSE write(current_position, transformed_gcode, angle, height_difference,
                       logs1
                         \o (IF SelfIntersection(p, height_difference)
                             THEN <<"ERROR! Self intersection">> ELSE <<>>)
                         \o (IF AngleWarning(p, angle)
                             THEN <<"Warning! Spline angle">> ELSE <<>>),
                       FloatOf(c.e), calc)
        platform(current_position, transformed_gcode, angle, height_difference, logs0,
                 cz, angle_last_layer) ==
            checks(current_position, transformed_gcode, angle, height_difference,
                   logs0 \o (IF transformed_gcode.xsign <= 0
                             THEN <<"Warning! Movement below build platform">>
                             ELSE <<>>),
                   [current_position |-> current_position,
                    corrected_z_height |-> cz.val,
                    angle_spline_this_layer |-> angle,
                    angle_last_layer |-> angle_last_layer,
                    height_difference |-> height_difference,
                    transformed_gcode |-> transformed_gcode])
        angles(current_position, dist_to_spline, cz, angle_spline_this_layer,
               angle_last_layer) ==
            platform(current_position,
                     get_normal_point([x |-> cz.val, y |-> spline(p, cz.val)],
                                      spline1(p, cz.val),
                                      current_position.x - p.spline_x[1]),
                     angle_spline_this_layer,
                     0 - RoundDiv(SinDeg(angle_spline_this_layer - angle_last_layer)
                                      * dist_to_spline, TrigScale),
                     IF cz.warn THEN <<"Warning! Spline not defined high enough">>
                     ELSE <<>>,
                     cz, angle_last_layer)
        corrected(current_position, dist_to_spline, cz) ==
            angles(current_position, dist_to_spline, cz,
                   arctan(spline1(p, cz.val)),
                   arctan(spline1(p, cz.val - p.layer_height)))
        position(current_position) ==
            corrected(current_position,
                      st.last_position.x
                          + RoundDiv(current_position.x - st.last_position.x, 2)
                          - p.spline_x[1],
                      on_spline_length(p, table, st.current_z))
        floats(px, py) ==
            IF px.ok /\ py.ok THEN position([x |-> px.val, y |-> py.val])
            ELSE raise(<<>>)
    IN  floats(FloatOf(c.x), FloatOf(c.y))

\* The test of line 217 with relative_mode taken as never set: every line
\* outside comments and mode switches is parsed.
RelativeModeIgnored(st) == FALSE

\* The test of line 217: the pass is in relative mode.
RelativeMode(st) == st.relative_mode

\* One iteration of the loop of lines 202-280 on current_line: what is written,
\* what is logged, and the position state afterwards.
BendLine(current_line, st, p, table) ==
    LET copy(case, st2) ==
            [case |-> case, out |-> <<current_line>>, logs |-> <<>>, st |-> st2,
             depth |-> None, calc |-> None]
        motion(c, pz, stz) ==
            IF ~pz.ok
            THEN [case |-> "raise", out |-> <<>>, logs |-> <<>>, st |-> st,
                  depth |-> None, calc |-> None]
            ELSE IF c.x = None \/ c.y = None
            THEN IF c.z # None
                 THEN [case |-> "layer",
                       out  |-> LayerChangeLines(stz.current_z - st.last_z, c.f),
                       logs |-> <<>>,
                       st   |-> [stz EXCEPT !.last_z = stz.current_z],
                       depth |-> None, calc |-> None]
                 ELSE copy("copy", stz)
            ELSE BendMove(current_line, c, stz, p, table)
        height(c, pz) ==
            motion(c, pz, IF c.z # None THEN [st EXCEPT !.current_z = pz.val] ELSE st)
        parsed(cmds) ==
            IF cmds = None THEN copy("nomatch", st)
            ELSE height(cmds[1], FloatOf(cmds[1].z))
    IN  IF current_line[1] = ";" THEN copy("comment", st)
        ELSE IF Find(current_line, <<"G", "9", "1", " ">>) # -1
        THEN copy("g91", [st EXCEPT !.relative_mode = TRUE])
        ELSE IF Find(current_line, <<"G", "9", "0", " ">>) # -1
        THEN copy("g90", [st EXCEPT !.relative_mode = FALSE])
        ELSE IF RelativeMode(st) THEN copy("relative", st)
        ELSE parsed(parse_gcode(current_line))

BendIdle ==
    [pc |-> "idle", i |-> 0, spline_lookup_table |-> <<>>, origin |-> <<>>,
     hist |-> <<>>,
     st |-> [last_position |-> [x |-> 0, y |-> 0], current_z |-> 0, last_z |-> 0,
             relative_mode |-> FALSE]]

\* The failure of line 155 with finished_signal emitted all the same, as a
\* `finally` around ProcessWorker.run's dispatch would.
BendConfigErrorThenFinished ==
    /\ bend.pc = "idle"
    /\ fs["input"].exists
    /\ ~ValidControlPoints(params.spline_x, params.spline_z)
    /\ bend' = [bend EXCEPT !.pc = "error"]
    /\ log' = Append(log, "Starting G-code bending process...")
    /\ signals' = signals \o << <<"error", "bending">>, <<"finished", "bending">> >>
    /\ UNCHANGED <<gui, params, fs, ik, klip>>

\* Line 155 raises on invalid control points: ProcessWorker.run (lines 142-143)
\* emits error_signal before any file is opened.
BendConfigError ==
    /\ bend.pc = "idle"
    /\ fs["input"].exists
    /\ ~ValidControlPoints(params.spline_x, params.spline_z)
    /\ bend' = [bend EXCEPT !.pc = "error"]
    /\ log' = Append(log, "Starting G-code bending process...")
    /\ signals' = Append(signals, <<"error", "bending">>)
    /\ UNCHANGED <<gui, params, fs, ik, klip>>

\* Lines 147-201: the spline and its lookup table are built, the position
\* state is initialised and the output file is created empty.
BendStart ==
    /\ bend.pc = "idle"
    /\ fs["input"].exists
    /\ ValidControlPoints(params.spline_x, params.spline_z)
    /\ bend' = [bend EXCEPT !.pc = "loop",
                            !.spline_lookup_table = BuildTable(params, <<0>>)]
    /\ fs' = [fs EXCEPT !["BENT"] = File(<<>>)]
    /\ log' = Append(log, "Starting G-code bending process...")
    /\ UNCHANGED <<gui, params, ik, klip, signals>>

\* The iteration of the loop on the next input line, when it is of `case`.
\* origin records the input line each output line comes from; hist records,
\* for each input line, the relative_mode in which it was read, the
\* transformed depth and current_z of an X/Y move, the messages logged, the
\* branch taken, the locals of an X/Y move and the position state afterwards.
BendIter(case) ==
    LET step(r) ==
            /\ r.case = case
            /\ fs' = [fs EXCEPT !["BENT"].lines = @ \o r.out]
            /\ log' = log \o r.logs
            /\ bend' = [bend EXCEPT
                          !.i = @ + 1,
                          !.st = r.st,
                          !.origin = @ \o [j \in 1..Len(r.out) |-> bend.i + 1],
                          !.hist = Append(@, [relative_mode |-> bend.st.relative_mode,
                                              depth |-> r.depth,
                                              current_z |-> r.st.current_z,
                                              logs |-> r.logs,
                                              case |-> r.case,
                                              calc |-> r.calc,
                                              st |-> r.st]),
                          !.pc = IF case = "raise" THEN "error" ELSE "loop"]
            /\ signals' = IF case = "raise"
                          THEN Append(signals, <<"error", "bending">>)
                          ELSE signals
    IN  /\ bend.i < Len(fs["input"].lines)
        /\ step(BendLine(fs["input"].lines[bend.i + 1], bend.st, params,
                         bend.spline_lookup_table))
        /\ UNCHANGED <<gui, params, ik, klip>>

\* Lines 203-205.
BendComment == bend.pc = "loop" /\ BendIter("comment")

\* Lines 207-210.
BendG91 == bend.pc = "loop" /\ BendIter("g91")

\* Lines 212-215.
BendG90 == bend.pc = "loop" /\ BendIter("g90")

\* Lines 217-219.
BendRelative == bend.pc = "loop" /\ BendIter("relative")

\* Lines 279-280.
BendNoMatch == bend.pc = "loop" /\ BendIter("nomatch")

\* Lines 226-233.
BendLayerChange == bend.pc = "loop" /\ BendIter("layer")

\* Lines 226, 234-235.
BendCopy == bend.pc = "loop" /\ BendIter("copy")

\* Lines 257-260.
BendUnplausible == bend.pc = "loop" /\ BendIter("unplausible")

\* Lines 237-278.
BendRewrite == bend.pc = "loop" /\ BendIter("move")

\* A float() of lines 224, 237 or 269 raises ValueError: ProcessWorker.run
\* (lines 142-143) emits error_signal and the pass ends.
BendRaise == bend.pc = "loop" /\ BendIter("raise")

\* Lines 282-283.
BendFinish ==
    /\ bend.pc = "loop"
    /\ bend.i = Len(fs["input"].lines)
    /\ bend' = [bend EXCEPT !.pc = "done"]
    /\ log' = Append(log, "G-code bending finished!")
    /\ signals' = Append(signals, <<"finished", "bending">>)
    /\ UNCHANGED <<gui, params, fs, ik, klip>>

NextBend ==
    \/ BendConfigError \/ BendStart
    \/ BendComment \/ BendG91 \/ BendG90 \/ BendRelative \/ BendNoMatch
    \/ BendLayerChange \/ BendCopy \/ BendUnplausible \/ BendRewrite \/ BendRaise
    \/ BendFinish

(***************************************************************************)
(* Inputs                                                                  *)
(***************************************************************************)
\* The lines of the input files: a comment holding "G91 ", the two mode
\* switches, a layer change, an X/Y move, a move with a malformed number, a
\* command with bare axis letters, a feed-only move and an indented move.
BendVocab ==
    {<<";", "G", "9", "1", " ", "\n">>,
     <<"G", "9", "1", " ", "\n">>,
     <<"G", "9", "0", " ", "\n">>,
     <<"G", "1", " ", "Z", "3", "\n">>,
     <<"G", "1", " ", "X", "9", " ", "Y", "1", " ", "E", "1", "\n">>,
     <<"G", "1", " ", "X", ".", " ", "Y", "1", "\n">>,
     <<"M", "8", "4", " ", "X", " ", "Y", "\n">>,
     <<"G", "1", " ", "F", "9", "\n">>,
     <<" ", "G", "1", " ", "X", "1", " ", "\n">>}

\* The lines of the files given to the Klipper conversion alone: G1 lines
\* with equal, differing and absent B values, a G0 line with rotation fields,
\* a comment and a padded command.
KlipperVocab ==
    {<<"G", "1", " ", "X", "1", ".", "0", " ", "A", "0", " ", "B", "5", "\n">>,
     <<"G", "1", " ", "X", "2", ".", "0", " ", "B", "5", ".", "0", "\n">>,
     <<"G", "1", " ", "Y", "1", ".", "0", " ", "B", "-", "7", ".", "5", " ", "E", "1", "\n">>,
     <<"G", "1", " ", "X", "1", ".", "0", "\n">>,
     <<"G", "0", " ", "X", "1", " ", "A", "0", " ", "B", "5", "\n">>,
     <<";", " ", "B", "5", "\n">>,
     <<" ", " ", "M", "8", "3", " ", "\n">>}

\* The files of at most MaxLines lines over the vocabulary V.
FilesOver(V) == UNION {[1..n -> V] : n \in 0..MaxLines}

\* The parameters the GUI passes (lines 672-678), in units of 1 / Scale: a curve
\* through (0, 0) and (2, 4), one through (1, 0) and (0, 3), and two sets whose
\* heights do not increase.
ParamSet ==
    {[spline_x |-> <<0, 20>>, spline_z |-> <<0, 40>>, layer_height |-> 2,
      warning_angle |-> 300, discretization_length |-> 5],
     [spline_x |-> <<10, 0>>, spline_z |-> <<0, 30>>, layer_height |-> 5,
      warning_angle |-> 300, discretization_length |-> 10],
     [spline_x |-> <<0, 20>>, spline_z |-> <<40, 0>>, layer_height |-> 2,
      warning_angle |-> 300, discretization_length |-> 5],
     [spline_x |-> <<0, 20>>, spline_z |-> <<40, 40>>, layer_height |-> 2,
      warning_angle |-> 300, discretization_length |-> 5]}

FileNames == {"input", "BENT", "IK", "KLIPPER"}

(***************************************************************************)
(* Specifications                                                          *)
(***************************************************************************)
\* The pipeline run stage by stage on a selected input file.
Init ==
    /\ params \in ParamSet
    /\ \E f \in FilesOver(BendVocab) :
           fs = [n \in FileNames |-> IF n = "input" THEN File(f) ELSE NoFile]
    /\ bend = BendIdle
    /\ ik = IKIdle
    /\ klip = KlipperIdle
    /\ log = <<>>
    /\ signals = <<>>
    /\ gui = GUIIdle

Next == NextBend \/ NextIK \/ NextKlipper

Spec == Init /\ [][Next]_vars

\* The Klipper conversion alone, on any file.
InitKlipper ==
    /\ params \in {p \in ParamSet : ValidControlPoints(p.spline_x, p.spline_z)}
    /\ \E f \in FilesOver(KlipperVocab) :
           fs = [n \in FileNames |-> IF n = "IK" THEN File(f) ELSE NoFile]
    /\ bend = BendIdle
    /\ ik = IKIdle
    /\ klip = KlipperIdle
    /\ log = <<>>
    /\ signals = <<>>
    /\ gui = GUIIdle

SpecKlipper == InitKlipper /\ [][NextKlipper]_vars

(***************************************************************************)
(* The IK translation on any field values                                  *)
(***************************************************************************)
\* Longest file given to the IK translation alone, in lines.
MaxIKLines == 2

\* "G1 X.. Y.. Z.. A.. B..": a line with the five fields the IK translation reads.
IKLineOf(x, y, z, a, b) ==
    <<"G", "1", " ", "X">> \o FormatFloat(x) \o <<" ", "Y">> \o FormatFloat(y)
        \o <<" ", "Z">> \o FormatFloat(z) \o <<" ", "A">> \o FormatFloat(a)
        \o <<" ", "B">> \o FormatFloat(b) \o <<"\n">>

\* Positions, in units of 1 / Scale: home, and two with a negative coordinate.
IKPositions == {<<0, 0, 0>>, <<-50, 300, 12>>, <<12, -50, 0>>}

\* Rotations, in units of 1 / Scale degrees.
IKRotationsA == {0, 900, -300}

IKRotationsB == {0, -900}

\* The lines of the files given to the IK translation alone: every position
\* with every rotation, the home line in integers, lines with some of the
\* fields, and a command with bare axis letters.
IKVocab ==
    {IKLineOf(q[1], q[2], q[3], a, b) :
         q \in IKPositions, a \in IKRotationsA, b \in IKRotationsB}
      \cup {<<"G", "1", " ", "X", "0", " ", "Y", "0", " ", "Z", "0", " ", "A", "0", " ", "B", "0", "\n">>,
            <<"G", "1", " ", "X", "-", "5", ".", "0", " ", "F", "9", "\n">>,
            <<"G", "1", " ", "Y", "3", ".", "0", " ", "Z", "0", ".", "5", "\n">>,
            <<"M", "8", "4", " ", "X", " ", "Y", "\n">>}

\* The IK translation alone, on any file: the bending has finished earlier
\* (line 735 has enabled the IK button) and the bent file holds any lines.
\* The translation reads no parameter; params are those of that bending.
InitIK ==
    /\ params \in {p \in ParamSet : p.spline_z = <<0, 40>>}
    /\ \E f \in UNION {[1..n -> IKVocab] : n \in 0..MaxIKLines} :
           fs = [n \in FileNames |-> IF n = "BENT" THEN File(f) ELSE NoFile]
    /\ bend = [BendIdle EXCEPT !.pc = "done"]
    /\ ik = IKIdle
    /\ klip = KlipperIdle
    /\ log = <<>>
    /\ signals = <<>>
    /\ gui = GUIIdle

SpecIK == InitIK /\ [][NextIK]_vars

(***************************************************************************)
(* The stages as the GUI starts them                                       *)
(***************************************************************************)
\* The stage of the worker that self.worker holds: the one started last
\* (lines 689, 705 and 722 replace self.worker), by its first log message.
StageOf(message) ==
    CASE message = "Starting G-code bending process..." -> "bending"
      [] message = "Starting IK translation process..." -> "ik"
      [] message = "Starting Klipper conversion process..." -> "klipper"
      [] OTHER -> "none"

RECURSIVE CurrentWorkerOf(_)
CurrentWorkerOf(messages) ==
    IF messages = <<>> THEN "none"
    ELSE IF StageOf(messages[Len(messages)]) # "none"
    THEN StageOf(messages[Len(messages)])
    ELSE CurrentWorkerOf(SubSeq(messages, 1, Len(messages) - 1))

CurrentWorker == CurrentWorkerOf(log)

\* A worker that is still in its run() after self.worker was given to a later
\* worker, and has reached the end of its input.
OrphanAtEnd ==
    \/ bend.pc = "loop" /\ bend.i = Len(fs["input"].lines) /\ CurrentWorker # "bending"
    \/ ik.pc = "loop" /\ ik.i = Len(ik.lines) /\ CurrentWorker # "ik"
    \/ klip.pc = "loop" /\ klip.i = Len(klip.lines) /\ CurrentWorker # "klipper"

\* "3. Run Klipper Conversion": the button is enabled from the start (its
\* setEnabled(False) of line 544 is commented out), so run_klipper_conversion
\* (lines 711-726) starts a worker whenever the IK file exists, whatever the
\* other workers are doing; the worker reads its input (lines 351-357).
KlipperClick ==
    /\ klip.pc = "idle"
    /\ fs["IK"].exists
    /\ klip' = [klip EXCEPT !.pc = "loop", !.lines = fs["IK"].lines]
    /\ log' = Append(log, "Starting Klipper conversion process...")
    /\ UNCHANGED <<gui, params, fs, bend, ik, signals>>

\* The QThread of a worker that self.worker no longer holds is destroyed when
\* its run() returns, while Qt still counts the thread as running: the process
\* may end there, every worker with it, or go on (the worker's own finish).
WorkerDestroyed ==
    /\ OrphanAtEnd
    /\ bend' = [bend EXCEPT !.pc = IF @ = "loop" THEN "aborted" ELSE @]
    /\ ik' = [ik EXCEPT !.pc = IF @ = "loop" THEN "aborted" ELSE @]
    /\ klip' = [klip EXCEPT !.pc = IF @ = "loop" THEN "aborted" ELSE @]
    /\ UNCHANGED <<gui, params, fs, log, signals>>

\* A file an earlier session left beside the input file.
LeftoverBent == << <<"G", "1", " ", "Z", "3", ".", "0", "\n">> >>

LeftoverIK == << <<"G", "1", " ", "X", "1", ".", "0", " ", "A", "0", " ", "B", "5", "\n">> >>

\* A session of the GUI: a file is selected (browse_file, lines 642-650), the
\* parameters are those of the form, and the output files of an earlier
\* session may be on disk.
InitGUI ==
    /\ params \in ParamSet
    /\ \E f \in FilesOver(BendVocab), b \in {NoFile, File(LeftoverBent)},
          k \in {NoFile, File(LeftoverIK)} :
           fs = [n \in FileNames |->
                    CASE n = "input" -> File(f)
                      [] n = "BENT" -> b
                      [] n = "IK" -> k
                      [] OTHER -> NoFile]
    /\ bend = BendIdle
    /\ ik = IKIdle
    /\ klip = KlipperIdle
    /\ log = <<>>
    /\ signals = <<>>
    /\ gui = GUIIdle

\* The workers run as threads: their steps interleave.
NextGUI == NextBend \/ NextIK \/ KlipperClick \/ KlipperLine \/ KlipperWrite \/ WorkerDestroyed

SpecGUI == InitGUI /\ [][NextGUI]_vars

(***************************************************************************)
(* The bending alone, on the kinds of motion line                          *)
(***************************************************************************)
\* The lines of the files given to the bending alone: a comment holding
\* "G91 ", G91 with nothing after it, the two mode switches followed by a
\* space, a layer change with a feed rate, a line with X and Z but no Y, a
\* line with X alone, a far X/Y move with a feed rate and no E, a near X/Y
\* move with an E, and a move with a malformed number.
MotionVocab ==
    {<<";", "G", "9", "1", " ", "\n">>,
     <<"G", "9", "1", "\n">>,
     <<"G", "9", "1", " ", "\n">>,
     <<"G", "9", "0", " ", "\n">>,
     <<"G", "1", " ", "Z", "3", " ", "F", "9", "\n">>,
     <<"G", "1", " ", "X", "5", " ", "Z", "3", "\n">>,
     <<"G", "1", " ", "X", "5", "\n">>,
     <<"G", "1", " ", "X", "9", " ", "Y", "1", " ", "F", "9", "\n">>,
     <<"G", "1", " ", "X", "3", " ", "Y", "1", " ", "E", "1", "\n">>,
     <<"G", "1", " ", "X", ".", " ", "Y", "1", "\n">>}

\* A curve through (0, 0) and (1, 2): lower than the layers of MotionVocab.
ShortSpline ==
    [spline_x |-> <<0, 10>>, spline_z |-> <<0, 20>>, layer_height |-> 2,
     warning_angle |-> 300, discretization_length |-> 5]

\* The bending alone (run_bending, lines 666-692, then the worker), on a
\* selected input file.
InitBend ==
    /\ params \in ParamSet \cup {ShortSpline}
    /\ \E f \in FilesOver(MotionVocab) :
           fs = [n \in FileNames |-> IF n = "input" THEN File(f) ELSE NoFile]
    /\ bend = BendIdle
    /\ ik = IKIdle
    /\ klip = KlipperIdle
    /\ log = <<>>
    /\ signals = <<>>
    /\ gui = GUIIdle

SpecBend == InitBend /\ [][NextBend]_vars

(***************************************************************************)
(* The pipeline on files with layers that rise and fall                    *)
(***************************************************************************)
\* The lines of BendVocab and a layer change to a lower height.
LayerVocab == BendVocab \cup {<<"G", "1", " ", "Z", "1", " ", "F", "9", "\n">>}

\* The pipeline run stage by stage on a selected input file over LayerVocab.
InitLayers ==
    /\ params \in ParamSet
    /\ \E f \in FilesOver(LayerVocab) :
           fs = [n \in FileNames |-> IF n = "input" THEN File(f) ELSE NoFile]
    /\ bend = BendIdle
    /\ ik = IKIdle
    /\ klip = KlipperIdle
    /\ log = <<>>
    /\ signals = <<>>
    /\ gui = GUIIdle

SpecLayers == InitLayers /\ [][Next]_vars

(***************************************************************************)
(* The standalone compiler: klipper_converter.py, lines 3-38                *)
(***************************************************************************)
\* Line 18 testing for "G" alone: every G command is taken for a move.
IsG1AnyG(original_line) == StartsWith(original_line, <<"G">>)

\* Line 18: only G1 lines are modified.
IsG1(original_line) == StartsWith(original_line, <<"G", "1">>)

\* One iteration of the loop of lines 14-31 on `line`, from converted_lines
\* and last_b_value as they stand.
ConverterLine(line, converted_lines, last_b_value) ==
    LET done(original_line, lines2, last2) ==
            [converted_lines |-> Append(lines2, original_line), last_b_value |-> last2]
        remove_a(original_line, lines2, last2) ==
            done(ReSub(original_line, "A"), lines2, last2)
        found(original_line, current_b) ==
            IF last_b_value = None \/ current_b # last_b_value[1]
            THEN remove_a(ReSub(original_line, "B"),
                          Append(converted_lines, StepperCommand(current_b)),
                          Some(current_b))
            ELSE remove_a(ReSub(original_line, "B"), converted_lines, last_b_value)
        g1(original_line, b_match) ==
            IF b_match # None THEN found(original_line, ParseFloat(b_match[1]).val)
            ELSE remove_a(original_line, converted_lines, last_b_value)
        stripped(original_line) ==
            IF IsG1(original_line) THEN g1(original_line, SearchB(original_line))
            ELSE done(original_line, converted_lines, last_b_value)
    IN  stripped(Strip(line))

\* convert_b_axis_to_manual_stepper after the first n of `lines`: lines 11-12
\* for n = 0, then the loop.
RECURSIVE convert_b_axis_to_manual_stepper(_, _)
convert_b_axis_to_manual_stepper(lines, n) ==
    LET next(before) == ConverterLine(lines[n], before.converted_lines, before.last_b_value)
    IN  IF n = 0 THEN [converted_lines |-> <<>>, last_b_value |-> None]
        ELSE next(convert_b_axis_to_manual_stepper(lines, n - 1))

(***************************************************************************)
(* Properties                                                              *)
(***************************************************************************)
\* The indices 1..n, in order.
Indices(n) == [j \in 1..n |-> j]

\* The elements of a sequence, as a set.
Range(s) == {s[j] : j \in 1..Len(s)}

\* s without its leading and trailing whitespace, one character at a time.
RECURSIVE Trimmed(_)
Trimmed(s) ==
    IF s = <<>> THEN s
    ELSE IF s[1] \in WS THEN Trimmed(Tail(s))
    ELSE IF s[Len(s)] \in WS THEN Trimmed(SubSeq(s, 1, Len(s) - 1))
    ELSE s

\* The lines the bending pass wrote for input line i, in order.
BentFrom(i) ==
    LET from(j) == bend.origin[j] = i
        at(js) == [k \in 1..Len(js) |-> fs["BENT"].lines[js[k]]]
    IN  at(SelectSeq(Indices(Len(bend.origin)), from))

\* C1: every input line that begins with ";" and every input line read while
\* relative mode is active is written to the bent file exactly as it is: one
\* output line for it, equal to the input line, and nothing else.
C1_PassThroughIdentity ==
    \A i \in 1..bend.i :
        (fs["input"].lines[i][1] = ";" \/ bend.hist[i].relative_mode)
            => BentFrom(i) = <<fs["input"].lines[i]>>

\* A finished pass that copied a comment and, in relative mode, a line that
\* the motion grammar matches.
C1_Witness ==
    /\ bend.pc = "done"
    /\ \E i \in 1..bend.i : fs["input"].lines[i][1] = ";"
    /\ \E i \in 1..bend.i :
           /\ bend.hist[i].relative_mode
           /\ fs["input"].lines[i][1] # ";"
           /\ parse_gcode(fs["input"].lines[i]) # None

\* s with each run of equal consecutive elements reduced to its first.
RECURSIVE Collapse(_)
Collapse(s) ==
    IF Len(s) <= 1 THEN s
    ELSE IF s[1] = s[2] THEN Collapse(Tail(s))
    ELSE <<s[1]>> \o Collapse(Tail(s))

\* The motion lines of the compiler: the lines that begin, after strip(),
\* with G1 and carry a rotation-B value.
HasB(line) ==
    StartsWith(Trimmed(line), <<"G", "1">>) /\ SearchB(Trimmed(line)) # None

\* The rotation-B value of such a line.
BOf(line) == ParseFloat(SearchB(Trimmed(line))[1]).val

\* The rotation-B values of the motion lines among the first n lines read.
BValues(n) ==
    LET at(js) == [k \in 1..Len(js) |-> BOf(klip.lines[js[k]])]
        has(j) == HasB(klip.lines[j])
    IN  at(SelectSeq(Indices(n), has))

\* The stepper commands emitted so far, in order.
Commands ==
    LET at(js) == [k \in 1..Len(js) |-> klip.converted_lines[js[k]]]
        cmd(j) == klip.origin[j].kind = "cmd"
    IN  at(SelectSeq(Indices(Len(klip.origin)), cmd))

HasField(line, L) ==
    \E i \in 2..Len(Split(line)) :
        /\ Split(line)[i][1] = L
        /\ ParseFloat(Tail(Split(line)[i])).ok

\* The line begins with the motion command code G0, G1, G2 or G3.
IsMotionLine(line) ==
    /\ Len(line) >= 2
    /\ line[1] = "G"
    /\ line[2] \in {"0", "1", "2", "3"}

\* C4 as stated: every line of the compiler's output that begins with G0, G1,
\* G2 or G3 carries neither a rotation-A nor a rotation-B field.
C4_NoRotationOnMotionLines ==
    \A j \in 1..Len(klip.converted_lines) :
        IsMotionLine(klip.converted_lines[j])
            => /\ ~HasField(klip.converted_lines[j], "A")
               /\ ~HasField(klip.converted_lines[j], "B")

\* Every field of the line is a letter followed by an optional minus sign,
\* digits, and an optional point and digits.
WellFormedFields(line) ==
    \A i \in 2..Len(Split(line)) :
        /\ Split(line)[i][1] \in Letters
        /\ NumEnd(Split(line)[i], 2) = Len(Split(line)[i]) + 1

\* C4 (amended): every line of the compiler's output that begins with G1 and
\* comes from an input line with well-formed fields carries neither a
\* rotation-A nor a rotation-B field, whether or not a stepper command was
\* emitted for it; an input line that begins with G0, G2 or G3 is written as
\* read, its rotation fields included.
C4_NoRotationOnG1Lines ==
    \A j \in 1..Len(klip.converted_lines) :
        klip.origin[j].kind = "line"
            => /\ (/\ StartsWith(klip.converted_lines[j], <<"G", "1">>)
                   /\ WellFormedFields(klip.lines[klip.origin[j].src]))
                      => /\ ~HasField(klip.converted_lines[j], "A")
                         /\ ~HasField(klip.converted_lines[j], "B")
               /\ (/\ IsMotionLine(Trimmed(klip.lines[klip.origin[j].src]))
                   /\ ~StartsWith(Trimmed(klip.lines[klip.origin[j].src]), <<"G", "1">>))
                      => klip.converted_lines[j] = Trimmed(klip.lines[klip.origin[j].src])

\* A finished conversion of a G1 line with both rotation fields that got a
\* command, a G1 line with a rotation-B field that got none, and a G0 line
\* with rotation fields.
C4_Witness ==
    /\ klip.pc = "done"
    /\ \E i \in 1..klip.i :
           /\ HasB(klip.lines[i])
           /\ HasField(Trimmed(klip.lines[i]), "A")
           /\ [src |-> i, kind |-> "cmd"] \in Range(klip.origin)
    /\ \E i \in 1..klip.i :
           /\ HasB(klip.lines[i])
           /\ [src |-> i, kind |-> "cmd"] \notin Range(klip.origin)
    /\ \E i \in 1..klip.i :
           /\ StartsWith(Trimmed(klip.lines[i]), <<"G", "0">>)
           /\ HasField(Trimmed(klip.lines[i]), "B")

\* The transformed depth of input line i is unplausible: negative, or more
\* than 50 from the current Z.
DepthUnplausible(i) ==
    /\ bend.hist[i].depth # None
    /\ \/ bend.hist[i].calc[1].transformed_gcode.xsign < 0
       \/ bend.hist[i].depth[1] - bend.hist[i].current_z > 50 * Scale
       \/ bend.hist[i].current_z - bend.hist[i].depth[1] > 50 * Scale

\* C5: for every X/Y move read in absolute mode whose transformed depth is
\* negative, or more than 50 from the current Z, the bending pass writes the
\* input line unchanged and nothing else for it, so no rewritten coordinate
\* line, and logs the unplausible-move Warning.
C5_UnplausibleFailSafe ==
    \A i \in 1..bend.i :
        DepthUnplausible(i)
            => /\ ~bend.hist[i].relative_mode
               /\ BentFrom(i) = <<fs["input"].lines[i]>>
               /\ "Warning! Possibly unplausible move" \in Range(bend.hist[i].logs)

\* A finished pass with an X/Y move of negative transformed depth, after a
\* layer change.
C5_Witness ==
    /\ bend.pc = "done"
    /\ \E i \in 1..bend.i :
           /\ bend.hist[i].depth # None
           /\ bend.hist[i].depth[1] < 0
           /\ bend.hist[i].current_z > 0

\* C6 as stated: with valid control points, a stage that has ended has
\* processed every line of its input and has signalled completion; no stage
\* ends on a line.
C6_NoPerLineAbort ==
    ValidControlPoints(params.spline_x, params.spline_z)
        => /\ bend.pc \in {"done", "error"}
                 => /\ bend.i = Len(fs["input"].lines)
                    /\ <<"finished", "bending">> \in Range(signals)
           /\ ik.pc \in {"done", "error"}
                 => /\ ik.i = Len(ik.lines)
                    /\ <<"finished", "ik">> \in Range(signals)
           /\ klip.pc \in {"done", "error"}
                 => /\ klip.i = Len(klip.lines)
                    /\ <<"finished", "klipper">> \in Range(signals)

\* The control points are invalid: fewer than two, or heights that do not
\* strictly increase.
InvalidControlPoints ==
    \/ Len(params.spline_z) < 2
    \/ \E i \in 1..(Len(params.spline_z) - 1) :
           params.spline_z[i] >= params.spline_z[i + 1]

\* C7: when the control points are invalid, a started bending pass has
\* reported an error, has not signalled completion, has read no input line
\* and has written no output line.
C7_ConfigErrorFatal ==
    (InvalidControlPoints /\ bend.pc # "idle")
        => /\ bend.pc = "error"
           /\ <<"error", "bending">> \in Range(signals)
           /\ <<"finished", "bending">> \notin Range(signals)
           /\ bend.i = 0
           /\ fs["BENT"].lines = <<>>
           /\ bend.origin = <<>>

\* A bending pass started on a non-empty file with heights that do not
\* increase, ended in error.
C7_Witness ==
    /\ InvalidControlPoints
    /\ bend.pc = "error"
    /\ fs["input"].lines # <<>>

\* The line is a comment, or not one the bending pass parses.
UnrecognizedByBend(line) == line[1] = ";" \/ parse_gcode(line) = None

\* The line is a comment, or does not begin, whitespace aside, with G or M.
UnrecognizedByIK(line) ==
    \/ line[1] = ";"
    \/ Trimmed(line) = <<>>
    \/ Trimmed(line)[1] \notin {"G", "M"}

\* The line is a comment, or does not begin, whitespace aside, with G1.
UnrecognizedByKlipper(line) ==
    line[1] = ";" \/ ~StartsWith(Trimmed(line), <<"G", "1">>)

\* The line of the Klipper file that holds converted line j.
KlipperFileLine(j) == fs["KLIPPER"].lines[j]

\* C8 as stated: at each of the three stages, a line that is a comment or
\* that the stage does not recognize is in the stage's output character for
\* character.
C8_UnrecognizedUnchanged ==
    /\ \A i \in 1..bend.i :
           UnrecognizedByBend(fs["input"].lines[i])
               => BentFrom(i) = <<fs["input"].lines[i]>>
    /\ \A k \in 1..Len(ik.origin) :
           UnrecognizedByIK(ik.lines[ik.origin[k]])
               => fs["IK"].lines[k] = ik.lines[ik.origin[k]]
    /\ klip.pc = "done"
           => \A j \in 1..Len(klip.origin) :
                  (/\ klip.origin[j].kind = "line"
                   /\ UnrecognizedByKlipper(klip.lines[klip.origin[j].src])
                   /\ j <= Len(fs["KLIPPER"].lines))
                      => KlipperFileLine(j) = klip.lines[klip.origin[j].src]

\* The input line that converted line j of the Klipper stage comes from.
InputOf(j) == fs["input"].lines[bend.origin[ik.origin[klip.origin[j].src]]]

\* C8 (amended): a line that is a comment or that the stage does not recognize
\* is written character for character by the bending pass, and with its
\* leading and trailing whitespace removed by the IK pass (which ends it with
\* one newline) and by the Klipper conversion; a comment comes out of the
\* three stages as it was read but for that whitespace.
C8_UnrecognizedUpToWhitespace ==
    /\ \A i \in 1..bend.i :
           UnrecognizedByBend(fs["input"].lines[i])
               => BentFrom(i) = <<fs["input"].lines[i]>>
    /\ \A k \in 1..Len(ik.origin) :
           UnrecognizedByIK(ik.lines[ik.origin[k]])
               => fs["IK"].lines[k] = Trimmed(ik.lines[ik.origin[k]]) \o <<"\n">>
    /\ \A j \in 1..Len(klip.origin) :
           klip.origin[j].kind = "line"
               => /\ UnrecognizedByKlipper(klip.lines[klip.origin[j].src])
                         => klip.converted_lines[j]
                                = Trimmed(klip.lines[klip.origin[j].src])
                  /\ InputOf(j)[1] = ";"
                         => klip.converted_lines[j] = Trimmed(InputOf(j))

\* The three stages have finished on a file with a comment that ends in
\* whitespace before its newline, and the comment is in the Klipper output.
C8_Witness ==
    /\ klip.pc = "done"
    /\ ik.pc = "done"
    /\ \E j \in 1..Len(klip.origin) :
           /\ klip.origin[j].kind = "line"
           /\ InputOf(j)[1] = ";"
           /\ Len(Trimmed(InputOf(j))) + 1 < Len(InputOf(j))

\* An X/Y/Z-bearing motion line: whitespace aside, it begins with G0, G1, G2
\* or G3 and has a field that starts with X, Y or Z.
IsXYZMotion(line) ==
    /\ Split(line) # <<>>
    /\ IsMotionLine(Split(line)[1])
    /\ \E i \in 2..Len(Split(line)) : Split(line)[i][1] \in {"X", "Y", "Z"}

\* The number of X/Y/Z-bearing motion lines of a file.
MotionCount(lines) == Cardinality({j \in 1..Len(lines) : IsXYZMotion(lines[j])})

\* The line of the bent file that converted line j of the Klipper stage comes from.
BentIndex(j) == ik.origin[klip.origin[j].src]

\* C9: when the bent file has gone through the IK pass and the Klipper
\* conversion, the result has no more X/Y/Z-bearing motion lines than the bent
\* file, each of them comes from an X/Y/Z-bearing motion line of the bent
\* file, and they stand in the order of the lines they come from; the IK pass
\* writes one line per line it processes and the conversion adds only stepper
\* commands.
C9_RoundTrip ==
    /\ Len(fs["IK"].lines) = ik.i
    /\ klip.pc = "done"
           => /\ MotionCount(fs["KLIPPER"].lines) <= MotionCount(fs["BENT"].lines)
              /\ \A j \in 1..Len(klip.origin) :
                     IsXYZMotion(klip.converted_lines[j])
                         => /\ klip.origin[j].kind = "line"
                            /\ IsXYZMotion(fs["BENT"].lines[BentIndex(j)])
              /\ \A j, k \in 1..Len(klip.origin) :
                     (/\ j < k
                      /\ klip.origin[j].kind = "line"
                      /\ klip.origin[k].kind = "line")
                         => BentIndex(j) < BentIndex(k)
              /\ Cardinality({j \in 1..Len(klip.origin) : klip.origin[j].kind = "line"})
                     = Len(klip.lines)

\* The three stages have finished on a bent file with two X/Y/Z-bearing motion
\* lines, and the conversion has emitted a stepper command.
C9_Witness ==
    /\ klip.pc = "done"
    /\ ik.pc = "done"
    /\ MotionCount(fs["BENT"].lines) >= 2
    /\ MotionCount(fs["KLIPPER"].lines) >= 2
    /\ \E j \in 1..Len(klip.origin) : klip.origin[j].kind = "cmd"

\* The lookup table starts at 0 and each sample exceeds the one before it by
\* discretization_length or more.
TableMonotone ==
    bend.spline_lookup_table # <<>>
        => /\ bend.spline_lookup_table[1] = 0
           /\ \A k \in 1..(Len(bend.spline_lookup_table) - 1) :
                  bend.spline_lookup_table[k + 1] - bend.spline_lookup_table[k]
                      >= params.discretization_length

\* Once built, the lookup table is left as it is.
TableFrozen ==
    bend.spline_lookup_table # <<>>
        => bend'.spline_lookup_table = bend.spline_lookup_table

\* C10: the lookup table starts at 0, every sample is at least
\* discretization_length above the previous one, hence not below it, and the
\* table is never changed after it is built.
C10_TableMonotoneAndFrozen == []TableMonotone /\ [][TableFrozen]_vars

\* A built table of several samples, one of them more than
\* discretization_length above the one before it, with lines processed since.
C10_Witness ==
    /\ Len(bend.spline_lookup_table) >= 3
    /\ \E k \in 1..(Len(bend.spline_lookup_table) - 1) :
           bend.spline_lookup_table[k + 1] - bend.spline_lookup_table[k]
               > params.discretization_length
    /\ bend.i >= 2

\* C11: for a spline whose heights start at 0, on_spline_length(0) is 0 and
\* logs no Warning: on the table as built, and for every X/Y move processed
\* at current_z = 0.
C11_CorrectedHeightZero ==
    (bend.spline_lookup_table # <<>> /\ params.spline_z[1] = 0)
        => /\ on_spline_length(params, bend.spline_lookup_table, 0)
                  = [val |-> 0, warn |-> FALSE]
           /\ \A i \in 1..bend.i :
                  (bend.hist[i].calc # None /\ bend.hist[i].current_z = 0)
                      => /\ bend.hist[i].calc[1].corrected_z_height = 0
                         /\ "Warning! Spline not defined high enough"
                                \notin Range(bend.hist[i].logs)

\* A finished pass with an X/Y move processed at current_z = 0 on a table of
\* several samples.
C11_Witness ==
    /\ bend.pc = "done"
    /\ params.spline_z[1] = 0
    /\ Len(bend.spline_lookup_table) >= 3
    /\ \E i \in 1..bend.i :
           bend.hist[i].calc # None /\ bend.hist[i].current_z = 0

\* The value of the field text `token` (its letter aside), in units of 1 / Scale.
FieldValue(token) == ParseFloat(Tail(token)).val

\* The line has no rotation: every A and B field it carries is 0.
NoRotation(parts) ==
    \A i \in 2..Len(parts) : parts[i][1] \in {"A", "B"} => FieldValue(parts[i]) = 0

StartsSerialized ==
    /\ (ik.pc = "idle" /\ ik'.pc = "loop") => bend.pc # "loop"
    /\ (klip.pc = "idle" /\ klip'.pc = "loop") => ik.pc # "loop"

\* C13 as stated: whatever the user starts and when, no stage starts reading
\* its input file while the worker of the stage before it is still writing
\* that file, so each stage consumes the complete output of the stage before.
C13_StageSerialization == [][StartsSerialized]_vars

\* C14 as stated: the file the IK stage consumes is the bend output of this
\* session's bending, and the file the Klipper conversion consumes is the
\* IK output of this session's IK translation of that bend output; no stage
\* runs on a file left from an earlier run.
C14_SequentialDataFlow ==
    /\ ik.pc \in {"loop", "done", "error"}
           => /\ bend.pc = "done"
              /\ ik.lines = fs["BENT"].lines
    /\ klip.pc \in {"loop", "done"}
           => /\ ik.pc \in {"done", "error"}
              /\ klip.lines = fs["IK"].lines

\* A line whose command word is `code`: it begins with code and whitespace
\* (the end of the line included) follows.
IsCommand(line, code) ==
    /\ StartsWith(line, code)
    /\ Len(line) > Len(code)
    /\ line[Len(code) + 1] \in WS

G91Line(line) == IsCommand(line, <<"G", "9", "1">>)

G90Line(line) == IsCommand(line, <<"G", "9", "0">>)

\* The positioning mode of the controller after lines 1..i: relative when the
\* last mode switch among them is a G91.
RECURSIVE ControllerRelative(_, _)
ControllerRelative(lines, i) ==
    IF i = 0 THEN FALSE
    ELSE IF G91Line(lines[i]) THEN TRUE
    ELSE IF G90Line(lines[i]) THEN FALSE
    ELSE ControllerRelative(lines, i - 1)

\* C15 as stated: every G91 line, with or without anything after the command,
\* is copied verbatim and leaves the pass in relative mode; every line after
\* it up to the next G90 line is copied verbatim; every G90 line is copied
\* verbatim and leaves the pass in absolute mode.
C15_ModeTransitions ==
    \A i \in 1..bend.i :
        LET lines == fs["input"].lines
        IN  /\ G91Line(lines[i])
                   => /\ BentFrom(i) = <<lines[i]>>
                      /\ bend.hist[i].st.relative_mode
            /\ G90Line(lines[i])
                   => /\ BentFrom(i) = <<lines[i]>>
                      /\ ~bend.hist[i].st.relative_mode
            /\ ControllerRelative(lines, i - 1) => BentFrom(i) = <<lines[i]>>

\* The fields of input line i when it is read in absolute mode and the motion
\* grammar matches it, None otherwise.
MotionAt(i) ==
    LET line == fs["input"].lines[i]
    IN  IF \/ bend.hist[i].relative_mode
           \/ bend.hist[i].case \in {"comment", "g91", "g90"}
        THEN None
        ELSE parse_gcode(line)

\* C16 as stated: of the motion lines read in absolute mode, one is copied
\* verbatim only if it has none of X, Y, Z, one is rewritten as a layer change
\* only if it has Z and neither X nor Y, and every one with X or Y goes
\* through the bend algorithm.
C16_LineClassification ==
    \A i \in 1..bend.i :
        MotionAt(i) # None =>
            LET c == MotionAt(i)[1]
                case == bend.hist[i].case
            IN  /\ case = "copy" => (c.x = None /\ c.y = None /\ c.z = None)
                /\ case = "layer" => (c.z # None /\ c.x = None /\ c.y = None)
                /\ (c.x # None \/ c.y # None)
                       => case \in {"move", "unplausible", "raise"}

\* The position state in which input line i is read.
StBefore(i) == IF i = 1 THEN BendIdle.st ELSE bend.hist[i - 1].st

\* Input line i is read in absolute mode, the motion grammar matches it, and
\* it has a Z field and neither X nor Y.
PureLayerChange(i) ==
    /\ MotionAt(i) # None
    /\ MotionAt(i)[1].z # None
    /\ MotionAt(i)[1].x = None
    /\ MotionAt(i)[1].y = None
    /\ ParseFloat(MotionAt(i)[1].z[1]).ok

\* C17: for a motion line read in absolute mode with a Z field and neither X
\* nor Y, current_z becomes the line's Z; the pass writes "G91", then a G1
\* line whose Z is current_z minus the last_z before the line and whose F is
\* the source F when there is one and absent otherwise, then "G90";
\* afterwards last_z equals current_z and last_position is as before.
C17_LayerChangeRewrite ==
    \A i \in 1..bend.i :
        PureLayerChange(i) =>
            LET c == MotionAt(i)[1]
                out == BentFrom(i)
                after == bend.hist[i].st
            IN  /\ after.current_z = ParseFloat(c.z[1]).val
                /\ Len(out) >= 3
                /\ out[1] = <<"G", "9", "1", "\n">>
                /\ parse_gcode(out[2]) # None
                /\ parse_gcode(out[2])[1].x = None
                /\ parse_gcode(out[2])[1].y = None
                /\ parse_gcode(out[2])[1].e = None
                /\ parse_gcode(out[2])[1].z # None
                /\ ParseFloat(parse_gcode(out[2])[1].z[1])
                       = [ok |-> TRUE, val |-> after.current_z - StBefore(i).last_z]
                /\ parse_gcode(out[2])[1].f = c.f
                /\ out[3] = <<"G", "9", "0", "\n">>
                /\ after.last_z = after.current_z
                /\ after.last_position = StBefore(i).last_position

\* A finished pass with a layer change that carries a feed rate, read after
\* an X/Y move has set last_position and after an earlier layer change has
\* set last_z: its delta is 0 where the line's Z is not.
C17_Witness ==
    /\ bend.pc = "done"
    /\ \E i \in 2..bend.i :
           /\ PureLayerChange(i)
           /\ MotionAt(i)[1].f # None
           /\ StBefore(i).last_z # 0
           /\ StBefore(i).last_position # [x |-> 0, y |-> 0]

\* The values the bend algorithm computed for input line i, an X/Y move.
CalcOf(i) == bend.hist[i].calc[1]

Logged(i, message) == message \in Range(bend.hist[i].logs)

\* Input line i is an X/Y move for which line 262 holds.
NegativeThickness(i) == params.layer_height + CalcOf(i).height_difference < 0

\* Input line i is an X/Y move for which line 265 holds.
TooSteep(i) == CalcOf(i).angle_spline_this_layer > params.warning_angle

\* C18 as stated: for every X/Y move read in absolute mode the Error of the
\* self-intersection is logged exactly when layer_height + height_difference
\* is negative, and the Warning of the angle exactly when the angle of the
\* spline exceeds the warning angle, whether or not the move is below the
\* build platform or unplausible.
C18_ChecksIndependent ==
    \A i \in 1..bend.i :
        bend.hist[i].calc # None
            => /\ Logged(i, "ERROR! Self intersection") <=> NegativeThickness(i)
               /\ Logged(i, "Warning! Spline angle") <=> TooSteep(i)

\* C18 amended: the two diagnostics are logged exactly on their conditions
\* for every X/Y move that is not unplausible, whether or not the Warning of
\* the build platform was logged for it; for an unplausible move neither is
\* logged.
C18_ChecksAfterPlausibility ==
    \A i \in 1..bend.i :
        bend.hist[i].calc # None
            => /\ Logged(i, "ERROR! Self intersection")
                      <=> (NegativeThickness(i) /\ ~DepthUnplausible(i))
               /\ Logged(i, "Warning! Spline angle")
                      <=> (TooSteep(i) /\ ~DepthUnplausible(i))

\* A finished pass with a plausible move that logged the Warning of the
\* angle, and an unplausible move of negative thickness and steep angle.
C18_Witness ==
    /\ bend.pc = "done"
    /\ \E i \in 1..bend.i :
           /\ bend.hist[i].calc # None
           /\ ~DepthUnplausible(i)
           /\ Logged(i, "Warning! Spline angle")
    /\ \E i \in 1..bend.i :
           /\ bend.hist[i].calc # None
           /\ DepthUnplausible(i)
           /\ NegativeThickness(i)
           /\ TooSteep(i)

\* Input line i is an X/Y move that is not unplausible and for which line 262
\* holds.
SelfIntersecting(i) ==
    /\ bend.hist[i].calc # None
    /\ ~DepthUnplausible(i)
    /\ NegativeThickness(i)

\* C19: when layer_height + height_difference is negative on a plausible X/Y
\* move, the Error is logged and the pass still writes exactly one line for
\* the move, the one write_line gives for the coordinates as computed and for
\* the source E scaled by (layer_height + height_difference) / layer_height,
\* and the pass goes on to the next line.
C19_SelfIntersectionDetectionOnly ==
    \A i \in 1..bend.i :
        SelfIntersecting(i) =>
            LET k == CalcOf(i)
                c == MotionAt(i)[1]
            IN  /\ Logged(i, "ERROR! Self intersection")
                /\ BentFrom(i)
                       = << write_line(
                              k.transformed_gcode.y, k.current_position.y,
                              k.transformed_gcode.x, k.angle_spline_this_layer,
                              IF c.e # None
                              THEN Some(RoundDiv(
                                       ParseFloat(c.e[1]).val
                                           * (params.layer_height + k.height_difference),
                                       params.layer_height))
                              ELSE None) >>
                /\ bend.hist[i].st.last_position = k.current_position
                /\ bend.i = i => bend.pc \in {"loop", "done"}

\* A finished pass with a self-intersecting move of positive depth that
\* carries an E, so that the E written is negative.
C19_Witness ==
    /\ bend.pc = "done"
    /\ \E i \in 1..bend.i :
           /\ SelfIntersecting(i)
           /\ MotionAt(i)[1].e # None
           /\ ParseFloat(MotionAt(i)[1].e[1]).val > 0
           /\ bend.hist[i].depth[1] > 0

\* C20 as stated: after every X/Y move read in absolute mode, last_position
\* is the X and Y of that move and last_z is current_z, so that the midpoint
\* of the next X/Y move is taken from the X/Y move just before it.
C20_PositionStateUpdated ==
    \A i \in 1..bend.i :
        bend.hist[i].calc # None
            => /\ bend.hist[i].st.last_position = CalcOf(i).current_position
               /\ bend.hist[i].st.last_z = bend.hist[i].st.current_z

\* How many times `message` was logged for input line i.
TimesLogged(i, message) ==
    Cardinality({j \in 1..Len(bend.hist[i].logs) : bend.hist[i].logs[j] = message})

\* C21: for every X/Y move, when some sample of the lookup table is at least
\* current_z the corrected height is (j - 1) * discretization_length for the
\* first such sample j (counted from 1) and no Warning of the spline height
\* is logged; when no sample is, the Warning is logged exactly once and the
\* corrected height is current_z itself.
C21_CorrectedHeightLookup ==
    \A i \in 1..bend.i :
        bend.hist[i].calc # None =>
            LET t == bend.hist[i].current_z
                table == bend.spline_lookup_table
                reaches(j) == table[j] >= t
                height == CalcOf(i).corrected_z_height
                warnings == TimesLogged(i, "Warning! Spline not defined high enough")
            IN  IF \E j \in 1..Len(table) : reaches(j)
                THEN /\ \E j \in 1..Len(table) :
                            /\ reaches(j)
                            /\ \A k \in 1..(j - 1) : ~reaches(k)
                            /\ height = (j - 1) * params.discretization_length
                     /\ warnings = 0
                ELSE /\ height = t
                     /\ warnings = 1

\* A finished pass with a move whose current_z equals the first sample (a
\* tie) and a move whose current_z is above every sample.
C21_Witness ==
    /\ bend.pc = "done"
    /\ Len(bend.spline_lookup_table) >= 3
    /\ \E i \in 1..bend.i :
           /\ bend.hist[i].calc # None
           /\ bend.hist[i].current_z = bend.spline_lookup_table[1]
           /\ CalcOf(i).corrected_z_height = 0
    /\ \E i \in 1..bend.i :
           /\ bend.hist[i].calc # None
           /\ \A j \in 1..Len(bend.spline_lookup_table) :
                  bend.spline_lookup_table[j] < bend.hist[i].current_z
           /\ Logged(i, "Warning! Spline not defined high enough")

\* The slope at height h of the cubic CubicSpline builds for the two control
\* points with end slopes 0 and 2.5 (line 155), in units of 1 / SlopeScale,
\* from its coefficients: s'(t) = 2 c2 t + 3 c3 t^2, c2 = (6D - 5H) / (2 H^2),
\* c3 = (5H - 4D) / (2 H^3), at any t = h - z0, inside the range or not.
EndCubicSlope(h) ==
    LET H == params.spline_z[2] - params.spline_z[1]
        D == params.spline_x[2] - params.spline_x[1]
        t == h - params.spline_z[1]
    IN  RoundDiv(SlopeScale * (2 * t * (6 * D - 5 * H) * H + 3 * t * t * (5 * H - 4 * D)),
                 2 * H * H * H)

\* Height h is inside the range of the control points.
InRange(h) == params.spline_z[1] <= h /\ h <= params.spline_z[Len(params.spline_z)]

\* C22 as stated: no line the bending writes for an X/Y move is computed from
\* a spline value or derivative taken outside the range of the control
\* points: neither the query at the corrected height nor the one a layer
\* below it is outside.
C22_SplineDomain ==
    \A i \in 1..bend.i :
        bend.hist[i].case = "move"
            => /\ InRange(CalcOf(i).corrected_z_height)
               /\ InRange(CalcOf(i).corrected_z_height - params.layer_height)

\* C22 amended: a query outside the range of the control points is answered
\* from the cubic of the range, extended, and is no error: for every X/Y move
\* with well-formed numbers the angles are those of that cubic at the
\* corrected height and a layer below it, wherever these heights lie, and the
\* move is rewritten or passed through as unplausible.
C22_SplineExtrapolates ==
    \A i \in 1..bend.i :
        /\ bend.hist[i].calc # None
               => /\ CalcOf(i).angle_spline_this_layer
                         = arctan(EndCubicSlope(CalcOf(i).corrected_z_height))
                  /\ CalcOf(i).angle_last_layer
                         = arctan(EndCubicSlope(CalcOf(i).corrected_z_height
                                                    - params.layer_height))
        /\ ( /\ MotionAt(i) # None
             /\ MotionAt(i)[1].x # None
             /\ MotionAt(i)[1].y # None
             /\ FloatOf(MotionAt(i)[1].x).ok
             /\ FloatOf(MotionAt(i)[1].y).ok
             /\ FloatOf(MotionAt(i)[1].z).ok
             /\ FloatOf(MotionAt(i)[1].e).ok )
               => bend.hist[i].case \in {"move", "unplausible"}

\* A finished pass with a rewritten move whose previous-layer query is below
\* the range and gives another angle than the end of the range, and a
\* rewritten move at a fallback height above the range.
C22_Witness ==
    /\ bend.pc = "done"
    /\ \E i \in 1..bend.i :
           /\ bend.hist[i].case = "move"
           /\ CalcOf(i).corrected_z_height - params.layer_height < params.spline_z[1]
           /\ CalcOf(i).angle_last_layer # CalcOf(i).angle_spline_this_layer
    /\ \E i \in 1..bend.i :
           /\ bend.hist[i].case = "move"
           /\ Logged(i, "Warning! Spline not defined high enough")
           /\ CalcOf(i).corrected_z_height > params.spline_z[2]

\* The letters of the fields of a line, in order, the command word aside.
FieldLetters(line) == [k \in 1..(Len(Split(line)) - 1) |-> Split(line)[k + 1][1]]

\* C23: the line written for a rewritten X/Y move carries an E field exactly
\* when the source line carries one, its value the source E times
\* (layer_height + height_difference) / layer_height, and carries no F field,
\* whether or not the source line has one.
C23_OptionalFields ==
    \A i \in 1..bend.i :
        bend.hist[i].case = "move" =>
            LET c == MotionAt(i)[1]
                out == Split(BentFrom(i)[1])
                letters == FieldLetters(BentFrom(i)[1])
            IN  /\ Len(BentFrom(i)) = 1
                /\ "F" \notin Range(letters)
                /\ ("E" \in Range(letters)) <=> (c.e # None)
                /\ \A k \in 2..Len(out) :
                       out[k][1] = "E"
                           => FieldValue(out[k])
                                  = RoundDiv(ParseFloat(c.e[1]).val
                                                 * (params.layer_height
                                                        + CalcOf(i).height_difference),
                                             params.layer_height)

\* A finished pass that rewrote a move with an F and no E, and a move with an
\* E whose thickness is not the nominal one.
C23_Witness ==
    /\ bend.pc = "done"
    /\ \E i \in 1..bend.i :
           /\ bend.hist[i].case = "move"
           /\ MotionAt(i)[1].f # None
           /\ MotionAt(i)[1].e = None
    /\ \E i \in 1..bend.i :
           /\ bend.hist[i].case = "move"
           /\ MotionAt(i)[1].e # None
           /\ CalcOf(i).height_difference # 0

\* C24: for every line the IK translation writes from a line that begins with
\* G or M, the output has the command word and the fields of the source, as
\* many and in the same order: each field keeps its letter, so X, Y or Z is
\* in the output only where it is in the source, and each field other than
\* X, Y, Z is written with the text it has in the source.
C24_IKFrame ==
    \A k \in 1..Len(ik.origin) :
        LET inp == Split(ik.lines[ik.origin[k]])
            out == Split(fs["IK"].lines[k])
        IN  (inp # <<>> /\ inp[1][1] \in {"G", "M"})
                => /\ Len(out) = Len(inp)
                   /\ out[1] = inp[1]
                   /\ \A i \in 2..Len(inp) :
                          /\ out[i][1] = inp[i][1]
                          /\ inp[i][1] \notin {"X", "Y", "Z"} => out[i] = inp[i]

\* A finished translation that wrote a line with X and an F and neither Y nor
\* Z, and a line whose rotation fields are not in the form str() gives a float.
C24_Witness ==
    /\ ik.pc = "done"
    /\ \E k \in 1..Len(ik.origin) :
           LET letters == FieldLetters(ik.lines[ik.origin[k]])
           IN  /\ Split(ik.lines[ik.origin[k]])[1] = <<"G", "1">>
               /\ "X" \in Range(letters)
               /\ "F" \in Range(letters)
               /\ "Y" \notin Range(letters)
               /\ Split(fs["IK"].lines[k]) # Split(ik.lines[ik.origin[k]])
    /\ \E k \in 1..Len(ik.origin) :
           \E i \in 2..Len(Split(ik.lines[ik.origin[k]])) :
               Split(ik.lines[ik.origin[k]])[i] = <<"A", "0">>

\* How many times the signal `kind` of `stage` was emitted.
Emissions(kind, stage) ==
    Cardinality({j \in 1..Len(signals) : signals[j] = <<kind, stage>>})

\* The run of a stage, by the position pc of its worker, has emitted no signal
\* while it runs, finished_signal alone once it has returned, and
\* error_signal alone once an exception has ended it.
OneOutcome(pc, stage) ==
    /\ pc \in {"idle", "loop"}
           => Emissions("finished", stage) = 0 /\ Emissions("error", stage) = 0
    /\ pc = "done"
           => Emissions("finished", stage) = 1 /\ Emissions("error", stage) = 0
    /\ pc = "error"
           => Emissions("finished", stage) = 0 /\ Emissions("error", stage) = 1

\* C25: every run of a worker of type bending, ik or klipper emits exactly
\* one of finished_signal and error_signal, when it ends; a run that an
\* exception ended has not emitted finished_signal.
C25_OneOutcomePerRun ==
    /\ bend.pc \in {"idle", "loop", "done", "error"}
    /\ ik.pc \in {"idle", "loop", "done", "error"}
    /\ klip.pc \in {"idle", "loop", "done", "error"}
    /\ OneOutcome(bend.pc, "bending")
    /\ OneOutcome(ik.pc, "ik")
    /\ OneOutcome(klip.pc, "klipper")

\* The bending has finished, the IK translation has ended on an exception
\* after writing part of its output, and the Klipper conversion of that
\* output has finished.
C25_Witness ==
    /\ bend.pc = "done"
    /\ ik.pc = "error"
    /\ ik.i >= 1
    /\ klip.pc = "done"
    /\ Len(signals) = 3

\* Line j of the bent file is the Z move of a layer change: the line between
\* the G91 and the G90 written for an input line of that kind.
IsDeltaLine(j) ==
    /\ bend.hist[bend.origin[j]].case = "layer"
    /\ StartsWith(fs["BENT"].lines[j], <<"G", "1", " ", "Z">>)

\* The value of the Z field of a line.
ZOf(line) ==
    LET parts == Split(line)
    IN  FieldValue(parts[CHOOSE i \in 2..Len(parts) : parts[i][1] = "Z"])

\* C26 as stated: every Z move of a layer change that the bending wrote,
\* whether its delta is positive, zero or negative, is written by the IK
\* translation with the same Z value.
C26_DeltasSurvive ==
    (bend.pc = "done" /\ ik.lines = fs["BENT"].lines)
        => \A k \in 1..Len(ik.origin) :
               IsDeltaLine(ik.origin[k])
                   => ZOf(fs["IK"].lines[k]) = ZOf(fs["BENT"].lines[ik.origin[k]])

\* Largest height asked of on_spline_length, in units of 1 / Scale.
MaxTarget == 45

\* The heights asked: from below the table to above its last sample.
Targets == (0 - 3)..MaxTarget

\* on_spline_length on the table of the pass.
CorrectedHeight(t) == on_spline_length(params, bend.spline_lookup_table, t)

\* C27: on the table of a pass, on_spline_length does not decrease when its
\* argument grows: from each height to the next one, and so between any two
\* heights, whether they are answered from the table or by the fallback.
C27_CorrectedHeightMonotone ==
    bend.spline_lookup_table # <<>>
        => \A t \in Targets : CorrectedHeight(t).val <= CorrectedHeight(t + 1).val

\* A pass whose table answers two heights with different samples and leaves
\* a greater height to the fallback.
C27_Witness ==
    /\ bend.pc = "done"
    /\ Len(bend.spline_lookup_table) >= 3
    /\ \E t1, t2, t3 \in Targets :
           /\ t1 < t2
           /\ t2 < t3
           /\ ~CorrectedHeight(t1).warn
           /\ ~CorrectedHeight(t2).warn
           /\ CorrectedHeight(t1).val < CorrectedHeight(t2).val
           /\ CorrectedHeight(t3).warn
           /\ CorrectedHeight(t2).val < CorrectedHeight(t3).val
    /\ \E i \in 1..bend.i : Logged(i, "Warning! Spline not defined high enough")

\* C28: on every input, after each line the conversion of the worker holds
\* the converted lines and the last emitted B that the standalone
\* convert_b_axis_to_manual_stepper holds after the same lines, and the file
\* it writes is the one the standalone writes.
C28_CompilersEquivalent ==
    klip.pc \in {"loop", "done"}
        => /\ klip.converted_lines
                  = convert_b_axis_to_manual_stepper(klip.lines, klip.i).converted_lines
           /\ klip.last_b_value
                  = convert_b_axis_to_manual_stepper(klip.lines, klip.i).last_b_value
           /\ klip.pc = "done"
                  => fs["KLIPPER"]
                         = File(JoinLines(
                               convert_b_axis_to_manual_stepper(
                                   klip.lines, Len(klip.lines)).converted_lines))

\* A finished conversion of a file with a repeated B value, a changed one, a
\* G0 line with rotation fields, and fewer stepper commands than B values.
C28_Witness ==
    /\ klip.pc = "done"
    /\ Len(klip.lines) >= 3
    /\ \E j \in 1..Len(klip.lines) : StartsWith(Strip(klip.lines[j]), <<"G", "0">>)
    /\ \E j \in 1..Len(klip.lines) : HasB(klip.lines[j])
    /\ Len(Commands) >= 1
    /\ Len(Commands) < Len(BValues(Len(klip.lines)))

(***************************************************************************)
(* The printer side: klipper_remote_control.py and the window's handlers   *)
(* that use it.  The window is single threaded: a handler runs to its end  *)
(* before the next click is served; it is shown here with one step per     *)
(* HTTP request it waits for.                                              *)
(***************************************************************************)
\* A parsed JSON body: null, a string or an object.
JNull == [t |-> "null"]

JStr(s) == [t |-> "str", v |-> s]

JObj(f) == [t |-> "obj", v |-> f]

\* Python's j[key] on a parsed body: a value, a KeyError or a TypeError.
Subscript(j, key) ==
    IF j.t # "obj" THEN [raises |-> "TypeError"]
    ELSE IF key \notin DOMAIN j.v THEN [raises |-> "KeyError"]
    ELSE [raises |-> "", value |-> j.v[key]]

Success(response) == [success |-> TRUE, response |-> response]

Failure(error) == [success |-> FALSE, error |-> error]

\* What a request can meet: a requests.RequestException (no connection, a
\* timeout, an HTTP error status), or a 2xx answer with a JSON body.
RequestException == [t |-> "RequestException"]

\* send_gcode: the request it posts and the result it returns.
send_gcode(gcode_command, answer) ==
    [request |-> [url |-> "/printer/gcode/script", script |-> gcode_command,
                  ok |-> answer # RequestException],
     result |-> IF answer = RequestException THEN Failure("RequestException")
                ELSE Success(answer)]

\* upload_file: the request it posts, if any, and the result it returns.
upload_file(file_path, answer) ==
    IF ~fs[file_path].exists
    THEN [requests |-> <<>>, result |-> Failure("File not found")]
    ELSE [requests |-> <<[url |-> "/server/files/upload", file |-> file_path,
                          ok |-> answer # RequestException]>>,
          result |-> IF answer = RequestException THEN Failure("RequestException")
                     ELSE Success(answer)]

\* start_print: the request it posts and the result it returns.
start_print(filename, answer) ==
    [request |-> [url |-> "/printer/print/start", filename |-> filename,
                  ok |-> answer # RequestException],
     result |-> IF answer = RequestException THEN Failure("RequestException")
                ELSE Success(answer)]

\* upload_result["response"]["item"]["path"]
UploadedPath(response) ==
    LET item == Subscript(response, "item")
    IN  IF item.raises # "" THEN item ELSE Subscript(item.value, "path")

\* The bodies a server may answer the upload with.
UploadBodies ==
    {JObj([item |-> JObj([path |-> JStr("KLIPPER"), root |-> JStr("gcodes")])]),
     JObj([item |-> JObj([path |-> JStr("KLIPPER_1"), root |-> JStr("gcodes")])]),
     JObj([item |-> JObj([root |-> JStr("gcodes")])]),
     JObj([result |-> JStr("KLIPPER")]),
     JObj([item |-> JNull]),
     JNull}

\* The body of an answer to a script or to a start of a print.
OkBody == JObj([result |-> JStr("ok")])

MassProductionCommands ==
    <<"G91", "G1 Z15 F1000", "G90", "MANUAL_STEPPER STEPPER=a_stepper MOVE=90",
      "MANUAL_STEPPER STEPPER=b_stepper MOVE=-45">>

FiveAxisCommands ==
    <<"G91", "G1 Z25 F1000", "G90", "MANUAL_STEPPER STEPPER=b_stepper MOVE=-90">>

\* test_printer_connection: a controller is kept only if the server answered.
test_printer_connection ==
    /\ gui.pc = "idle"
    /\ \E ip_address \in {"", "printer"}, connected \in BOOLEAN :
           gui' = IF ip_address = ""
                  THEN [gui EXCEPT !.dialog = Some("Invalid IP")]
                  ELSE [gui EXCEPT !.printer_controller = connected,
                                   !.dialog = Some(IF connected THEN "Connection Successful"
                                                   ELSE "Connection Failed")]
    /\ UNCHANGED <<params, fs, bend, ik, klip, log, signals>>

\* send_to_printer up to the call of upload_and_print.
send_to_printer ==
    /\ gui.pc = "idle"
    /\ \E reply \in {"Yes", "No"} :
           gui' = IF ~fs["KLIPPER"].exists
                  THEN [gui EXCEPT !.dialog = Some("File Not Found")]
                  ELSE IF ~gui.printer_controller
                  THEN [gui EXCEPT !.dialog = Some("Not Connected")]
                  ELSE IF reply = "No"
                  THEN [gui EXCEPT !.dialog = Some("Confirm Print")]
                  ELSE [gui EXCEPT !.pc = "upload_file", !.dialog = Some("Confirm Print"),
                                   !.requests = <<>>, !.upload_result = None,
                                   !.result = None]
    /\ UNCHANGED <<params, fs, bend, ik, klip, log, signals>>

\* The dialog send_to_printer ends with, for the result of upload_and_print.
PrintDialog(result) ==
    Some(IF result.success THEN "Print Started" ELSE "Print Failed")

\* upload_and_print, first half: the upload and the return of its failure.
UploadRequest(upload_result) ==
    gui' = IF ~upload_result.result.success
           THEN [gui EXCEPT !.pc = "idle", !.requests = upload_result.requests,
                            !.upload_result = Some(upload_result.result),
                            !.result = Some(upload_result.result),
                            !.dialog = PrintDialog(upload_result.result)]
           ELSE [gui EXCEPT !.pc = "start_print", !.requests = upload_result.requests,
                            !.upload_result = Some(upload_result.result)]

UploadStep ==
    /\ gui.pc = "upload_file"
    /\ \E answer \in {RequestException} \cup UploadBodies :
           UploadRequest(upload_file("KLIPPER", answer))
    /\ UNCHANGED <<params, fs, bend, ik, klip, log, signals>>

\* upload_and_print, second half: the filename taken from the response, the
\* start of the print, and the end of send_to_printer.  A KeyError becomes a
\* failure result; any other exception leaves upload_and_print and is caught
\* by send_to_printer.
StartRequest(filename, answer) ==
    gui' = IF filename.raises = "KeyError"
           THEN [gui EXCEPT !.pc = "idle",
                            !.result = Some(Failure("Could not determine uploaded filename")),
                            !.dialog = Some("Print Failed")]
           ELSE IF filename.raises # ""
           THEN [gui EXCEPT !.pc = "idle", !.result = None, !.dialog = Some("Error")]
           ELSE LET started == start_print(filename.value, answer)
                IN  [gui EXCEPT !.pc = "idle",
                                !.requests = Append(gui.requests, started.request),
                                !.result = Some(started.result),
                                !.dialog = PrintDialog(started.result)]

StartStep ==
    /\ gui.pc = "start_print"
    /\ \E answer \in {RequestException, OkBody} :
           StartRequest(UploadedPath(gui.upload_result[1].response), answer)
    /\ UNCHANGED <<params, fs, bend, ik, klip, log, signals>>

\* A setup handler up to its loop.
SetupClicked(handler, commands) ==
    /\ \E reply \in {"Yes", "No"} :
           gui' = IF ~gui.printer_controller
                  THEN [gui EXCEPT !.dialog = Some("Not Connected")]
                  ELSE IF reply = "No"
                  THEN [gui EXCEPT !.dialog = Some("Confirm Setup")]
                  ELSE [gui EXCEPT !.pc = handler, !.dialog = Some("Confirm Setup"),
                                   !.requests = <<>>, !.upload_result = None,
                                   !.result = None, !.commands = commands, !.i = 0,
                                   !.success_count = 0]
    /\ UNCHANGED <<params, fs, bend, ik, klip, log, signals>>

setup_mass_production ==
    gui.pc = "idle" /\ SetupClicked("setup_mass_production", MassProductionCommands)

setup_five_axis ==
    gui.pc = "idle" /\ SetupClicked("setup_five_axis", FiveAxisCommands)

\* One turn of the loop of a setup handler and, when the loop ends (the break
\* after a failure, or the last command), the dialog that reports it.
SetupSent(sent) ==
    LET success_count == gui.success_count + (IF sent.result.success THEN 1 ELSE 0)
        ended == ~sent.result.success \/ gui.i + 1 = Len(gui.commands)
    IN  gui' = [gui EXCEPT !.requests = Append(gui.requests, sent.request),
                           !.result = Some(sent.result),
                           !.success_count = success_count,
                           !.i = IF sent.result.success THEN gui.i + 1 ELSE gui.i,
                           !.pc = IF ended THEN "idle" ELSE gui.pc,
                           !.dialog = IF ~ended THEN gui.dialog
                                      ELSE IF success_count = Len(gui.commands)
                                      THEN Some("Setup Complete")
                                      ELSE Some("Setup Incomplete")]

SetupStep ==
    /\ gui.pc \in {"setup_mass_production", "setup_five_axis"}
    /\ \E answer \in {RequestException, OkBody} :
           SetupSent(send_gcode(gui.commands[gui.i + 1], answer))
    /\ UNCHANGED <<params, fs, bend, ik, klip, log, signals>>

NextPrinter ==
    \/ test_printer_connection
    \/ send_to_printer
    \/ UploadStep
    \/ StartStep
    \/ setup_mass_production
    \/ setup_five_axis
    \/ SetupStep

\* The printer handlers alone, with or without a converted file on disk.
InitPrinter ==
    /\ params = CHOOSE p \in ParamSet : TRUE
    /\ \E f \in {NoFile, File(<<>>)} :
           fs = [n \in FileNames |-> IF n = "KLIPPER" THEN f ELSE NoFile]
    /\ bend = BendIdle
    /\ ik = IKIdle
    /\ klip = KlipperIdle
    /\ log = <<>>
    /\ signals = <<>>
    /\ gui = GUIIdle

SpecPrinter == InitPrinter /\ [][NextPrinter]_vars

(***************************************************************************)
(* C29: the upload precedes the print                                      *)
(***************************************************************************)
\* send_to_printer has called upload_and_print and the call is over.
PrintEnded ==
    gui.pc = "idle" /\ gui.dialog \in {Some("Print Started"), Some("Print Failed"), Some("Error")}

\* The requests of the last handler that went to one URL.
RequestsTo(url) == {j \in 1..Len(gui.requests) : gui.requests[j].url = url}

\* The body of a successful upload names no file: it is no object, or has no
\* "item", or its "item" is no object, or the "item" has no "path".
LacksPath(response) ==
    ~ /\ response.t = "obj"
      /\ "item" \in DOMAIN response.v
      /\ response.v["item"].t = "obj"
      /\ "path" \in DOMAIN response.v["item"].v

UploadFailed == gui.upload_result # None /\ ~gui.upload_result[1].success

\* C29 as stated: a start of a print is requested only after an upload that
\* succeeded, and for the path of the upload's response; when the upload
\* failed or its response lacks the path, no start is requested and
\* upload_and_print returns a failure result; and upload_and_print runs only
\* with a controller held and the Klipper file on disk.
C29_UploadPrecedesPrint ==
    /\ \A j \in RequestsTo("/printer/print/start") :
           /\ \E k \in RequestsTo("/server/files/upload") : k < j /\ gui.requests[k].ok
           /\ ~LacksPath(gui.upload_result[1].response)
           /\ gui.requests[j].filename = gui.upload_result[1].response.v["item"].v["path"]
    /\ (PrintEnded /\ (UploadFailed \/ LacksPath(gui.upload_result[1].response)))
           => /\ RequestsTo("/printer/print/start") = {}
              /\ gui.result # None
              /\ ~gui.result[1].success
    /\ gui.pc \in {"upload_file", "start_print"}
           => gui.printer_controller /\ fs["KLIPPER"].exists

(***************************************************************************)
(* C30: the setup sequences                                                *)
(***************************************************************************)
\* A setup handler ran its loop and reported.
SetupEnded ==
    gui.pc = "idle" /\ gui.dialog \in {Some("Setup Complete"), Some("Setup Incomplete")}

InSetup == gui.pc \in {"setup_mass_production", "setup_five_axis"} \/ SetupEnded

\* The commands went out in the order of the list, none after a failed one,
\* and success is reported only when every command of the list succeeded.
SetupInOrder ==
    InSetup =>
        /\ Len(gui.requests) <= Len(gui.commands)
        /\ \A j \in 1..Len(gui.requests) :
               /\ gui.requests[j].url = "/printer/gcode/script"
               /\ gui.requests[j].script = gui.commands[j]
               /\ j < Len(gui.requests) => gui.requests[j].ok
        /\ gui.dialog = Some("Setup Complete")
               => /\ Len(gui.requests) = Len(gui.commands)
                  /\ \A j \in 1..Len(gui.requests) : gui.requests[j].ok

\* Every G91 that was sent is followed by a G90 that was sent.
BackToAbsolute ==
    \A j \in 1..Len(gui.requests) :
        gui.requests[j].script = "G91"
            => \E k \in (j + 1)..Len(gui.requests) : gui.requests[k].script = "G90"

\* C30 as stated: in both setup handlers the commands are sent in list order,
\* none is sent after one has failed, success is reported only if all
\* succeeded, and whenever the sequence has ended, with or without success,
\* every G91 sent was followed by a G90.
C30_SetupStopsAtFirstFailure ==
    /\ SetupInOrder
    /\ SetupEnded => BackToAbsolute
====
